---- MODULE Spec2Model ----
(***************************************************************************)
(* A model of v8's ExternalEntityTable (src/sandbox/external-entity-table- *)
(* inl.h): the segmented table, its Spaces, and the lock-free freelist     *)
(* allocator with its mutex-protected growth path.                         *)
(*                                                                         *)
(* Every thread runs AllocateEntry / AllocateEntryBelow one atomic memory  *)
(* access at a time; the position of a thread inside a call is pc[th].     *)
(* A DCHECK that fails is recorded in dchecks and execution carries on as  *)
(* the release build does.  V8::FatalProcessOutOfMemory ends the process:  *)
(* once fatal is set no action is enabled.                                 *)
(***************************************************************************)
EXTENDS Integers, FiniteSets, Sequences, TLC

\* ---------------------------------------------------------------- bounds
\* Number of segments the reserved address range of one table can hold
\* (segment 0 included).
NumSegments == 3
\* Entries in one segment (kSegmentSize / kEntrySize).
kEntriesPerSegment == 2
\* Number of AllocateEntry / AllocateEntryBelow calls started in one run.
MaxCalls == 3

\* sizeof(Entry), in bytes.
kEntrySize == 8
kSegmentSize == kEntriesPerSegment * kEntrySize
kReservationSize == NumSegments * kSegmentSize

Tables == {"T1", "T2"}
Spaces == {"A", "B"}
Threads == {"t1", "t2"}
nullptr == "nullptr"
NoThread == "none"

Indices == 0 .. (NumSegments * kEntriesPerSegment - 1)
SegmentNumbers == 0 .. (NumSegments - 1)
\* Thresholds handed to AllocateEntryBelow.
Thresholds == {0, kEntriesPerSegment + 1, 2 * kEntriesPerSegment}
\* What GetNextFreelistEntryIndex may yield on an entry that holds a payload.
PayloadBits == {0, kEntriesPerSegment + 1}
\* The failure value of VirtualAddressSpace::AllocatePages (kNullAddress).
kNullAddress == -1

VARIABLES
  base_,          \* per table: "set" once InitializeTable ran, else nullptr
  vas_pages,      \* per table: offsets of the segments allocated in vas_
  entries,        \* per table: the entry array, base_[index]
  freelist_head_, \* per space: the atomic {next, length} pair
  segments_,      \* per space: set of segment numbers
  mutex_,         \* per space: the thread holding the mutex, or NoThread
  owning_table_,  \* per space: the table it is registered with, or nullptr
  torn_down,      \* spaces whose TearDownSpace has run (end of lifetime)
  pc,             \* per thread: position in the running call
  call,           \* per thread: [space, threshold] of the running call
  freelist,       \* per thread: the local FreelistHead
  next_freelist_entry, \* per thread: local of TryAllocateEntryFromFreelist
  segment,        \* per thread: local of Extend, the new segment's number
  allocated,      \* per space: how often each index has been returned
  result,         \* per thread: the value the finished call returned
  ncalls,         \* calls started so far
  dchecks,        \* names of the DCHECKs that have failed
  fatal,          \* the process has ended: V8::FatalProcessOutOfMemory, a crash
  \* the marking visitor (src/heap/marking-visitor-inl.h)
  marked,         \* per object: its mark bit
  worklist,       \* per object: how often it is on the marking worklist
  progress_bar,   \* per fixed array: the value of its ProgressBar
  gc_state,       \* per descriptor array: [epoch, marked, delta]
  ephemeron_hash_tables, \* the tables pushed to the weak worklist
  discovered_ephemerons, \* the Ephemeron{key, value} pairs pushed
  frame,          \* per thread: position and locals of the running visit
  try_mark_true,  \* per object: how many TryMark calls returned true
  pushes,         \* per object and push site: pushes to the marking worklist
  scanned,        \* per array and offset: how often the slot was visited
  raw_transitions, \* per map: the value of its weak-capable slot
  recorded_slots, \* per host: the slots handed to RecordSlot
  weak_references, \* per host: the slots pushed to the weak-references worklist
  mutator,        \* the mutator's position in its write to a slot
  descriptor_visits,   \* per descriptor array: header visits and the visits made
  local_weak_objects_, \* per weak worklist and object: how often it was pushed
  \* code flushing: the visitor's configuration and the functions' fields
  code_flush_mode_,    \* the set of CodeFlushMode flags of the visitor
  v8_flags,            \* flush_code_based_on_time, .._on_tab_visibility
  isolate_in_background_,      \* member of the visitor
  should_keep_ages_unchanged_, \* member of the visitor
  age,                 \* per SharedFunctionInfo: the 16-bit age field
  function_data,       \* per SharedFunctionInfo: the object in function_data
  kind,                \* per SharedFunctionInfo: its FunctionKind
  allows_lazy_compilation, \* per SharedFunctionInfo: the flag of that name
  code                 \* per JSFunction: the object in its code field

vars == <<base_, vas_pages, entries, freelist_head_, segments_, mutex_,
          owning_table_, torn_down, pc, call, freelist, next_freelist_entry,
          segment, result, allocated, ncalls, dchecks, fatal,
          marked, worklist, progress_bar, gc_state, ephemeron_hash_tables,
          discovered_ephemerons, frame, try_mark_true, pushes, scanned,
          raw_transitions, recorded_slots, weak_references, mutator,
          descriptor_visits, local_weak_objects_, code_flush_mode_, v8_flags,
          isolate_in_background_, should_keep_ages_unchanged_, age,
          function_data, kind, allows_lazy_compilation, code>>
\* What the visits of weak cells and of functions read and write.
\* The configuration of code flushing and the fields it reads and writes.
flushing_vars == <<code_flush_mode_, v8_flags, isolate_in_background_,
                   should_keep_ages_unchanged_, age, function_data, kind,
                   allows_lazy_compilation, code>>
weak_object_vars == <<local_weak_objects_, flushing_vars>>
\* The slots a mutator writes, and what the visitor notes down about slots.
slot_vars == <<raw_transitions, recorded_slots, weak_references, mutator>>
marking_vars == <<marked, worklist, progress_bar, gc_state,
                  ephemeron_hash_tables, discovered_ephemerons, frame,
                  try_mark_true, pushes, scanned, slot_vars,
                  descriptor_visits, weak_object_vars>>

\* -------------------------------------------------------------- helpers
FreelistHead(next, length) == [next |-> next, length |-> length]
EmptyFreelistHead == FreelistHead(0, 0)
is_empty(fl) == fl.next = 0 /\ fl.length = 0

Segment_At(offset) == offset \div kSegmentSize
\* Dividing an entry index by the segment's size in bytes.
Segment_Containing_BySize(entry_index) == entry_index \div kSegmentSize
Segment_Containing(entry_index) == entry_index \div kEntriesPerSegment
first_entry(number) == number * kEntriesPerSegment
last_entry(number) == first_entry(number) + kEntriesPerSegment - 1
segment_offset(number) == number * kSegmentSize

Contains(space, index) == Segment_Containing(index) \in segments_[space]
BelongsTo(space, table) == owning_table_[space] = table
is_initialized(table) == base_[table] # nullptr

\* An entry is zero-filled memory, a freelist entry or an entry in use.
FreshEntry == [tag |-> "zero", next |-> 0]
MakeFreelistEntry(next) == [tag |-> "free", next |-> next]
PayloadEntry == [tag |-> "payload", next |-> 0]
\* A read that takes the bits of every entry for payload bits.
GetNextFreelistEntryIndex_Payload(e) == PayloadBits
\* The values a read of the next-link of entry e can produce.
GetNextFreelistEntryIndex(e) ==
  IF e.tag = "payload" THEN PayloadBits ELSE {e.next}

\* A check that never fires.
DCheck_Never(name, cond) == {}
\* DCHECK(cond): the name of the check is recorded when cond is false.
DCheck(name, cond) == IF cond THEN {} ELSE {name}

\* ------------------------------------------- the heap the visitor marks
\* Sizes of the marked heap, in slots.
FixedArraySize == 4
kProgressBarScanningChunk == 2
NumberOfDescriptors == 3
\* FixedArray::BodyDescriptor::kStartOffset: the slots before it are the header,
\* which VisitMapPointer covers.
kStartOffset == 1

\* Two maps that share one descriptor array, a fixed array with a progress
\* bar that is the prototype of the first map, an object that is the
\* prototype of the second map and an element of the array, and an ephemeron
\* hash table with the entry (key, value), the key being an element of the
\* array.  The last element of the array lies in the read-only space.  The
\* first map refers weakly to the prototype of the second, and the second map
\* holds the only reference to the object target.
\* A second part of the heap, with roots of its own, holds the weak objects:
\* an ephemeron hash table with one entry for every case of its visit, two
\* weak cells, and a fixed array with a progress bar that refers to the key
\* k2, to the target tgt and to the unregister token of the first cell.
Objects ==
  {"arr", "mapA", "mapB", "descs", "table", "key", "value", "proto", "target", "ro",
   "table2", "arr2", "cell", "cell2", "k2", "k3", "k4", "k5", "v1", "v2",
   "tgt", "token",
   "sfi", "js_function", "bytecode", "baseline_code", "uncompiled_data", "code"}
FixedArrays == {"arr", "arr2"}
Maps == {"mapA", "mapB"}
DescriptorArrays == {"descs"}
EphemeronHashTables == {"table", "table2"}
WeakCells == {"cell", "cell2"}
\* The objects the root visitor has marked and pushed when the visitor starts.
Roots == {"mapA", "mapB", "table"}
\* The roots of a cycle over the weak objects.
WeakObjectRoots == {"table2", "arr2", "cell", "cell2"}
\* A function: its JSFunction and its SharedFunctionInfo, and the objects
\* their code and function_data fields can hold: a bytecode array, baseline
\* code (whose bytecode_or_interpreter_data is the bytecode array),
\* uncompiled data, and code of another kind than BASELINE.
SharedFunctionInfos == {"sfi"}
JSFunctions == {"js_function"}
Codes == {"baseline_code", "code"}
FunctionRoots == {"sfi", "js_function"}
ReadOnlySpace == {"ro"}
\* Takes no object to lie in the read-only space.
InReadOnlySpace_Never(object) == FALSE
\* HeapObject::InReadOnlySpace().
InReadOnlySpace(object) == object \in ReadOnlySpace
\* A value that is no heap object.
Smi == "Smi"
\* Object::IsHeapObject().
IsHeapObject(object) == object # Smi
\* Marks whatever the object is.
ShouldMarkObject_Always(object) == TRUE
\* ShouldMarkObject: objects in the read-only space are not marked.
ShouldMarkObject(object) == object \notin ReadOnlySpace

\* The pointer slots of a Map that Map::BodyDescriptor::IterateBody visits:
\* the strong fields, and the slot of the transitions, which can be weak.
MapSlots == <<"prototype", "instance_descriptors", "raw_transitions">>
\* TSlot::kCanBeWeak: the slot is visited as a MaybeObjectSlot.
kCanBeWeak(host, slot) == host \in Maps /\ slot = "raw_transitions"
\* A tagged value that refers to a heap object, strongly or weakly.
Strong(object) == [object |-> object, weak |-> FALSE]
Weak(object) == [object |-> object, weak |-> TRUE]
\* The strong reference a slot of a host holds.
SlotValue(host, slot) ==
  IF host \in SharedFunctionInfos THEN function_data[host]
  ELSE IF host \in JSFunctions THEN code[host]
  ELSE IF host \in Codes THEN "bytecode"
  ELSE IF host \in Maps
  THEN (IF slot = "instance_descriptors" THEN "descs"
        ELSE IF host = "mapA" THEN "arr" ELSE "proto")
  ELSE IF host = "arr"
  THEN (IF slot = kStartOffset THEN "key"
        ELSE IF slot = FixedArraySize - 1 THEN "ro" ELSE "proto")
  ELSE (IF slot = kStartOffset THEN "k2"
        ELSE IF slot = kStartOffset + 1 THEN "tgt" ELSE "token")
\* The transitions slot of the maps when marking starts.
InitialTransitions(map) ==
  IF map = "mapA" THEN Weak("proto") ELSE Strong("target")
\* The slot the mutator writes while the visitor runs, and the object it
\* refers to.
MutatedHost == "mapB"
MutatedSlot == "raw_transitions"
\* The entries of an ephemeron hash table, table.IterateEntries().
Entries(table) ==
  IF table = "table"
  THEN <<[key |-> "key", value |-> "value"]>>
  ELSE <<[key |-> "ro", value |-> "v1"], [key |-> "k2", value |-> "v2"],
         [key |-> "k3", value |-> "tgt"], [key |-> "k4", value |-> "ro"],
         [key |-> "k5", value |-> Smi]>>
\* weak_cell.relaxed_target() and weak_cell.relaxed_unregister_token().
relaxed_target(weak_cell) == IF weak_cell = "cell" THEN "tgt" ELSE "ro"
relaxed_unregister_token(weak_cell) == IF weak_cell = "cell" THEN "token" ELSE "tgt"
\* map.NumberOfOwnDescriptors(): the maps own a prefix of the shared array.
NumberOfOwnDescriptors(map) ==
  IF map = "mapA" THEN NumberOfDescriptors - 2 ELSE NumberOfDescriptors - 1

\* mark_compact_epoch_ of the running cycle, and the epoch before it.
mark_compact_epoch_ == 1
PreviousEpoch == 0
NewState(epoch, marked_, delta) == [epoch |-> epoch, marked |-> marked_, delta |-> delta]

PushSites == {"MarkObject", "VisitFixedArrayWithProgressBar", "VisitDescriptorsForMap"}
\* The offsets the visit counters cover: the array and one chunk behind it.
ScannedOffsets(object) ==
  IF object \in FixedArrays
  THEN 0 .. (FixedArraySize + kProgressBarScanningChunk)
  ELSE 0 .. NumberOfDescriptors
IdleFrame ==
  [pc |-> "idle", host |-> nullptr, slots |-> <<>>, slot |-> nullptr,
   object |-> nullptr, current_progress_bar |-> 0, end |-> 0,
   current_age |-> 0]
\* The objects whose slots RecordSlot or the weak-references worklist can hold.
Hosts == Maps \cup FixedArrays \cup EphemeronHashTables \cup WeakCells
         \cup SharedFunctionInfos \cup JSFunctions \cup Codes
IdleMutator == [pc |-> "idle", object |-> nullptr]
\* No visit of a descriptor array has been made.
NoVisits == [header |-> 0, returned |-> <<>>]
\* The worklists of local_weak_objects_ that count their pushes.
WeakWorklists ==
  {"weak_cells", "code_flushing_candidates", "baseline_flushing_candidates",
   "flushed_js_functions"}

RECURSIVE Range(_, _)
\* The sequence start, start + 1, .., end - 1.
Range(start, end) == IF start >= end THEN <<>> ELSE <<start>> \o Range(start + 1, end)
Min(a, b) == IF a < b THEN a ELSE b

NoCall == [space |-> nullptr, threshold |-> 0, op |-> "none"]

\* The root visitor has marked the roots and pushed them.
MarkedRoots(roots) ==
  /\ marked = [o \in Objects |-> o \in roots]
  /\ worklist = [o \in Objects |-> IF o \in roots THEN 1 ELSE 0]
  /\ try_mark_true = [o \in Objects |-> IF o \in roots THEN 1 ELSE 0]
\* Code flushing is disabled and the function is not compiled.
FlushingDisabled ==
  /\ code_flush_mode_ = {}
  /\ v8_flags = [flush_code_based_on_time |-> FALSE,
                 flush_code_based_on_tab_visibility |-> FALSE]
  /\ isolate_in_background_ = FALSE
  /\ should_keep_ages_unchanged_ = FALSE
  /\ age = [sfi \in SharedFunctionInfos |-> 0]
  /\ function_data = [sfi \in SharedFunctionInfos |-> "uncompiled_data"]
  /\ kind = [sfi \in SharedFunctionInfos |-> "kNormalFunction"]
  /\ allows_lazy_compilation = [sfi \in SharedFunctionInfos |-> TRUE]
  /\ code = [js_function \in JSFunctions |-> "code"]
\* Everything but the roots of the marking cycle and the configuration of
\* code flushing.
InitExceptRoots ==
  /\ base_ = [t \in Tables |-> nullptr]
  /\ vas_pages = [t \in Tables |-> {}]
  /\ entries = [t \in Tables |-> [i \in Indices |-> FreshEntry]]
  /\ freelist_head_ = [s \in Spaces |-> EmptyFreelistHead]
  /\ segments_ = [s \in Spaces |-> {}]
  /\ mutex_ = [s \in Spaces |-> NoThread]
  /\ owning_table_ = [s \in Spaces |-> nullptr]
  /\ torn_down = {}
  /\ pc = [th \in Threads |-> "idle"]
  /\ call = [th \in Threads |-> NoCall]
  /\ freelist = [th \in Threads |-> EmptyFreelistHead]
  /\ next_freelist_entry = [th \in Threads |-> 0]
  /\ allocated = [s \in Spaces |-> [i \in Indices |-> 0]]
  /\ segment = [th \in Threads |-> 0]
  /\ result = [th \in Threads |-> 0]
  /\ ncalls = 0
  /\ dchecks = {}
  /\ fatal = FALSE
  /\ progress_bar = [o \in FixedArrays |-> 0]
  /\ gc_state = [o \in DescriptorArrays |->
                   NewState(PreviousEpoch, NumberOfDescriptors, 0)]
  /\ ephemeron_hash_tables = {}
  /\ discovered_ephemerons = {}
  /\ frame = [th \in Threads |-> IdleFrame]
  /\ pushes = [o \in Objects |-> [site \in PushSites |-> 0]]
  /\ scanned = [o \in FixedArrays \cup DescriptorArrays |->
                  [i \in ScannedOffsets(o) |-> 0]]
  /\ raw_transitions = [m \in Maps |-> InitialTransitions(m)]
  /\ recorded_slots = [h \in Hosts |-> {}]
  /\ weak_references = [h \in Hosts |-> {}]
  /\ mutator = IdleMutator
  /\ descriptor_visits = [a \in DescriptorArrays |-> NoVisits]
  /\ local_weak_objects_ = [w \in WeakWorklists |-> [o \in Objects |-> 0]]
Init ==
  /\ InitExceptRoots
  /\ MarkedRoots(Roots)
  /\ FlushingDisabled

table_vars == <<base_, vas_pages, entries>>
space_vars == <<freelist_head_, segments_, mutex_, owning_table_, torn_down>>
thread_vars == <<pc, call, freelist, next_freelist_entry, segment, result>>
history_vars == <<allocated, ncalls>>

\* FreeTableSegment (lines 283-289): the DCHECK and the range it frees.
FreeTableSegment_DCheck(number) ==
  DCheck("FreeTableSegment: segment.number() != 0", number # 0)
\* Frees at base_ + number instead of base_ + offset: hits no segment's pages.
FreePages_AtNumber(number) == number
\* lines 287-288: the offset of the pages vas_->FreePages releases.
FreePages(number) == segment_offset(number)
\* The entries that lie in the kSegmentSize bytes at an offset from base_.
EntriesInPages(offset) ==
  {i \in Indices : offset <= i * kEntrySize /\ i * kEntrySize < offset + kSegmentSize}

\* The list without its terminator.
FreelistLink_NoTerminator(number, i) == i + 1
\* Extend, lines 254-258: the next-link written into entry i of the segment.
FreelistLink(number, i) == IF i < last_entry(number) THEN i + 1 ELSE 0
\* A head whose length leaves out the last entry of the segment.
NewFreelistHead_WithoutLast(number) ==
  FreelistHead(first_entry(number), last_entry(number) - first_entry(number))
\* Extend, line 263: the head published for the new segment.
NewFreelistHead(number) ==
  FreelistHead(first_entry(number), last_entry(number) - first_entry(number) + 1)
\* The popped head with the length left as it was.
PoppedFreelistHead_SameLength(fl, link) == FreelistHead(link, fl.length)
\* The popped head still pointing at the entry handed out.
PoppedFreelistHead_SameNext(fl, link) == FreelistHead(fl.next, fl.length - 1)
\* TryAllocateEntryFromFreelist, line 224.  The length is a uint32_t: 0 - 1
\* wraps to 2^32 - 1, for which the largest integer of the checker stands.
PoppedFreelistHead(fl, link) ==
  FreelistHead(link, IF fl.length = 0 THEN 2147483647 ELSE fl.length - 1)
\* A blind store in place of the compare-and-swap.
CompareExchange_Blind(current, expected) == TRUE
\* A compare-and-swap that fails although the head equals expected.
CompareExchange_Spurious(current, expected) == FALSE
\* compare_exchange_strong(expected, ...) succeeds iff the head equals expected.
CompareExchange(current, expected) == current = expected

\* ------------------------------------------------------ table lifecycle
\* An address space that hands out ranges already in use.
AllocatePages_IgnoreAllocated(table) ==
  {segment_offset(n) : n \in SegmentNumbers} \cup {kNullAddress}
\* The offsets vas_->AllocatePages(kNoHint, kSegmentSize, kSegmentSize, ..)
\* can return: the start of any free, kSegmentSize-aligned range of the
\* subspace, or kNullAddress.
AllocatePages(table) ==
  {segment_offset(n) : n \in {m \in SegmentNumbers :
                                segment_offset(m) \notin vas_pages[table]}}
    \cup {kNullAddress}

\* InitializeTable without the first segment.
FirstSegmentPages_None == {}
\* lines 107-110: the pages InitializeTable allocates at vas_->base(), read-only,
\* for the first segment.
FirstSegmentPages == {segment_offset(0)}

InitializeTable(table) ==
  /\ ~fatal
  /\ ~is_initialized(table)          \* DCHECK(!is_initialized())
  /\ base_' = [base_ EXCEPT ![table] = "set"]
  /\ vas_pages' = [vas_pages EXCEPT ![table] = @ \cup FirstSegmentPages]
  /\ UNCHANGED <<entries, space_vars, thread_vars, history_vars, dchecks, fatal>>
  /\ UNCHANGED marking_vars

\* A Space lives from its construction to TearDownSpace, after which only its
\* destructor runs.
SpaceIsLive(space) == space \notin torn_down

InitializeSpace(table, space) ==
  /\ ~fatal
  /\ SpaceIsLive(space)
  /\ owning_table_[space] = nullptr   \* DCHECK_EQ(space->owning_table_, nullptr)
  /\ owning_table_' = [owning_table_ EXCEPT ![space] = table]
  /\ UNCHANGED <<table_vars, freelist_head_, segments_, mutex_, torn_down,
                 thread_vars, history_vars, dchecks, fatal>>
  /\ UNCHANGED marking_vars

\* A teardown that also empties the freelist.
HeadAfterTearDown_Reset(head) == EmptyFreelistHead
\* lines 142-145: TearDownSpace frees the segments and clears segments_; it
\* does not store to freelist_head_.
HeadAfterTearDown(head) == head

TearDownSpace(table, space) ==
  /\ ~fatal
  /\ is_initialized(table)            \* DCHECK(is_initialized())
  /\ BelongsTo(space, table)          \* DCHECK(space->BelongsTo(this))
  /\ SpaceIsLive(space)
     \* the Space is torn down at the end of its lifetime: no call on it runs
  /\ \A th \in Threads : call[th].space # space
  /\ dchecks' = dchecks \cup
       UNION {FreeTableSegment_DCheck(n) : n \in segments_[space]}
  /\ vas_pages' = [vas_pages EXCEPT ![table] =
                     @ \ {FreePages(n) : n \in segments_[space]}]
  /\ entries' = [entries EXCEPT ![table] =
                   [i \in Indices |->
                      IF \E n \in segments_[space] : i \in EntriesInPages(FreePages(n))
                      THEN FreshEntry ELSE @[i]]]
  /\ segments_' = [segments_ EXCEPT ![space] = {}]
  /\ freelist_head_' = [freelist_head_ EXCEPT ![space] = HeadAfterTearDown(@)]
  /\ torn_down' = torn_down \cup {space}
  /\ UNCHANGED <<base_, mutex_, owning_table_, thread_vars,
                 history_vars, fatal>>
  /\ UNCHANGED marking_vars

\* -------------------------------------------------------------- threads
Space(th) == call[th].space
Table(th) == owning_table_[call[th].space]

\* Extend, lines 242-244.
Extend_DChecks(th) ==
  DCheck("Extend: space->freelist_length() == 0", freelist_head_[Space(th)].length = 0)
    \cup DCheck("Extend: space->mutex_.AssertHeld()", mutex_[Space(th)] = th)

\* A thread calls AllocateEntry(space) or AllocateEntryBelow(space, threshold)
\* on the table the live space is registered with.
BeginCall(th, op, space, threshold) ==
  /\ ~fatal
  /\ pc[th] = "idle"
  /\ ncalls < MaxCalls
  /\ owning_table_[space] # nullptr                \* DCHECK(space->BelongsTo(this))
  /\ is_initialized(owning_table_[space])          \* DCHECK(is_initialized())
  /\ SpaceIsLive(space)
  /\ call' = [call EXCEPT ![th] =
                [space |-> space, threshold |-> threshold, op |-> op]]
  /\ pc' = [pc EXCEPT ![th] = IF op = "AllocateEntry" THEN "AE_load" ELSE "AB_load"]
  /\ ncalls' = ncalls + 1
  /\ UNCHANGED <<table_vars, space_vars, freelist, next_freelist_entry,
                 segment, result, allocated, dchecks, fatal>>
  /\ UNCHANGED marking_vars

\* line 168: freelist = space->freelist_head_.load(acquire); line 169.
AllocateEntry_Load(th) ==
  /\ ~fatal
  /\ pc[th] = "AE_load"
  /\ freelist' = [freelist EXCEPT ![th] = freelist_head_[Space(th)]]
  /\ pc' = [pc EXCEPT ![th] =
              IF is_empty(freelist_head_[Space(th)]) THEN "AE_lock" ELSE "TA_read"]
  /\ UNCHANGED <<table_vars, space_vars, call, next_freelist_entry, segment,
                 result, history_vars, dchecks, fatal>>
  /\ UNCHANGED marking_vars

\* line 172: base::MutexGuard guard(&space->mutex_).
AllocateEntry_Lock(th) ==
  /\ ~fatal
  /\ pc[th] = "AE_lock"
  /\ mutex_[Space(th)] = NoThread
  /\ mutex_' = [mutex_ EXCEPT ![Space(th)] = th]
  /\ pc' = [pc EXCEPT ![th] = "AE_reload"]
  /\ UNCHANGED <<table_vars, freelist_head_, segments_, owning_table_, torn_down,
                 call, freelist, next_freelist_entry, segment, result,
                 history_vars, dchecks, fatal>>
  /\ UNCHANGED marking_vars

\* Extending without looking at the reloaded head.
MustExtend_NoRecheck(fl) == TRUE
\* Whether AllocateEntry, holding the mutex, extends the space (line 177).
MustExtend(fl) == is_empty(fl)

\* lines 175-177: reload under the mutex and decide whether to extend.
AllocateEntry_Reload(th) ==
  /\ ~fatal
  /\ pc[th] = "AE_reload"
  /\ freelist' = [freelist EXCEPT ![th] = freelist_head_[Space(th)]]
  /\ pc' = [pc EXCEPT ![th] =
              IF MustExtend(freelist_head_[Space(th)]) THEN "EX_alloc" ELSE "AE_unlock"]
  /\ UNCHANGED <<table_vars, space_vars, call, next_freelist_entry, segment,
                 result, history_vars, dchecks, fatal>>
  /\ UNCHANGED marking_vars

\* The result of AllocatePages used without a check.
AllocationFailed_Unchecked(start) == FALSE
\* line 275: if (!start).
AllocationFailed(start) == start = kNullAddress

\* The head of the new segment stored before its entries are linked.
HeadBeforeLinks_Published(head, number) == NewFreelistHead(number)
\* lines 247-258: the freelist head while Extend inserts the segment and writes
\* the links; the store of line 264 comes after them.
HeadBeforeLinks(head, number) == head

\* lines 242-249: the DCHECKs of Extend, AllocateTableSegment, segments_.insert.
Extend_AllocateSegment(th) ==
  /\ ~fatal
  /\ pc[th] = "EX_alloc"
  /\ \E start \in AllocatePages(Table(th)) :
       IF AllocationFailed(start)
       THEN /\ fatal' = TRUE    \* V8::FatalProcessOutOfMemory
            /\ dchecks' = dchecks \cup Extend_DChecks(th)
            /\ UNCHANGED <<table_vars, space_vars, thread_vars, history_vars>>
       ELSE /\ vas_pages' = [vas_pages EXCEPT ![Table(th)] = @ \cup {start}]
            /\ segments_' = [segments_ EXCEPT ![Space(th)] = @ \cup {Segment_At(start)}]
            /\ segment' = [segment EXCEPT ![th] = Segment_At(start)]
            /\ dchecks' = dchecks \cup Extend_DChecks(th)
                 \cup DCheck("Extend: segment.number() != 0", Segment_At(start) # 0)
            /\ freelist_head_' = [freelist_head_ EXCEPT ![Space(th)] =
                                    HeadBeforeLinks(@, Segment_At(start))]
            /\ pc' = [pc EXCEPT ![th] = "EX_link"]
            /\ UNCHANGED <<base_, entries, mutex_, owning_table_,
                           torn_down, call, freelist, next_freelist_entry,
                           result, history_vars, fatal>>
  /\ UNCHANGED marking_vars

\* lines 252-258: thread the entries of the new segment into a list.
Extend_Link(th) ==
  /\ ~fatal
  /\ pc[th] = "EX_link"
  /\ entries' = [entries EXCEPT ![Table(th)] =
                   [i \in Indices |->
                      IF i \in first_entry(segment[th]) .. last_entry(segment[th])
                      THEN MakeFreelistEntry(FreelistLink(segment[th], i))
                      ELSE @[i]]]
  /\ pc' = [pc EXCEPT ![th] = "EX_publish"]
  /\ UNCHANGED <<base_, vas_pages, space_vars, call, freelist,
                 next_freelist_entry, segment, result, history_vars, dchecks, fatal>>
  /\ UNCHANGED marking_vars

\* lines 263-266 and, back in AllocateEntry, lines 179-181.
Extend_Publish(th) ==
  /\ ~fatal
  /\ pc[th] = "EX_publish"
  /\ freelist_head_' = [freelist_head_ EXCEPT ![Space(th)] = NewFreelistHead(segment[th])]
  /\ freelist' = [freelist EXCEPT ![th] = NewFreelistHead(segment[th])]
  /\ dchecks' = dchecks \cup
       DCheck("AllocateEntry: freelist.length() == kEntriesPerSegment",
              NewFreelistHead(segment[th]).length = kEntriesPerSegment)
  /\ segment' = [segment EXCEPT ![th] = 0]
  /\ pc' = [pc EXCEPT ![th] = "AE_unlock"]
  /\ UNCHANGED <<table_vars, segments_, mutex_, owning_table_, torn_down, call,
                 next_freelist_entry, result, history_vars, fatal>>
  /\ UNCHANGED marking_vars

\* A guard that keeps the mutex.
MutexGuard_Release_Never(th) == th
\* The holder of the mutex once the MutexGuard of line 171 is destroyed.
MutexGuard_Release(th) == NoThread

\* line 183: the MutexGuard goes out of scope.
AllocateEntry_Unlock(th) ==
  /\ ~fatal
  /\ pc[th] = "AE_unlock"
  /\ mutex_' = [mutex_ EXCEPT ![Space(th)] = MutexGuard_Release(th)]
  /\ pc' = [pc EXCEPT ![th] = "TA_read"]
  /\ UNCHANGED <<table_vars, freelist_head_, segments_, owning_table_, torn_down,
                 call, freelist, next_freelist_entry, segment, result,
                 history_vars, dchecks, fatal>>
  /\ UNCHANGED marking_vars

\* The entry lies in pages that are allocated in the table's address space.
IsMapped(table, index) ==
  segment_offset(Segment_Containing(index)) \in vas_pages[table]

\* lines 219-223: the DCHECKs and the read of the head entry's next-link.
TryAllocateEntryFromFreelist_Read(th) ==
  /\ ~fatal
  /\ pc[th] = "TA_read"
  /\ IsMapped(Table(th), freelist[th].next)
  /\ \E link \in GetNextFreelistEntryIndex(entries[Table(th)][freelist[th].next]) :
       next_freelist_entry' = [next_freelist_entry EXCEPT ![th] = link]
  /\ dchecks' = dchecks
       \cup DCheck("TryAllocateEntryFromFreelist: !freelist.is_empty()",
                   ~is_empty(freelist[th]))
       \cup DCheck("TryAllocateEntryFromFreelist: space->Contains(freelist.next())",
                   Contains(Space(th), freelist[th].next))
  /\ pc' = [pc EXCEPT ![th] = "TA_cas"]
  /\ UNCHANGED <<table_vars, space_vars, call, freelist, segment, result,
                 history_vars, fatal>>
  /\ UNCHANGED marking_vars

\* lines 224-235: the compare-and-swap of the freelist head.
TryAllocateEntryFromFreelist_CAS(th) ==
  /\ ~fatal
  /\ pc[th] = "TA_cas"
  /\ LET new_freelist == PoppedFreelistHead(freelist[th], next_freelist_entry[th])
         success == CompareExchange(freelist_head_[Space(th)], freelist[th])
     IN /\ freelist_head_' = IF success
                             THEN [freelist_head_ EXCEPT ![Space(th)] = new_freelist]
                             ELSE freelist_head_
        /\ dchecks' = IF success
                      THEN dchecks
                        \cup DCheck("TryAllocateEntryFromFreelist: length > 1 implies !new.is_empty()",
                                    freelist[th].length > 1 => ~is_empty(new_freelist))
                        \cup DCheck("TryAllocateEntryFromFreelist: length == 1 implies new.is_empty()",
                                    freelist[th].length = 1 => is_empty(new_freelist))
                      ELSE dchecks
        /\ pc' = [pc EXCEPT ![th] =
                    IF call[th].op = "AllocateEntry"
                    THEN (IF success THEN "AE_ret" ELSE "AE_load")
                    ELSE (IF success THEN "AB_ret" ELSE "AB_load")]
  /\ next_freelist_entry' = [next_freelist_entry EXCEPT ![th] = 0]
  /\ UNCHANGED <<table_vars, segments_, mutex_, owning_table_, torn_down, call,
                 freelist, segment, result, history_vars, fatal>>
  /\ UNCHANGED marking_vars

\* lines 188-191.
AllocateEntry_Return(th) ==
  /\ ~fatal
  /\ pc[th] = "AE_ret"
  /\ LET allocated_entry == freelist[th].next
     IN /\ result' = [result EXCEPT ![th] = allocated_entry]
        /\ allocated' = [allocated EXCEPT ![Space(th)][allocated_entry] = @ + 1]
        /\ dchecks' = dchecks
             \cup DCheck("AllocateEntry: space->Contains(allocated_entry)",
                         Contains(Space(th), allocated_entry))
             \cup DCheck("AllocateEntry: allocated_entry != 0", allocated_entry # 0)
  /\ pc' = [pc EXCEPT ![th] = "returned"]
  /\ freelist' = [freelist EXCEPT ![th] = EmptyFreelistHead]
  /\ UNCHANGED <<table_vars, space_vars, call, next_freelist_entry, segment,
                 ncalls, fatal>>
  /\ UNCHANGED marking_vars

\* The threshold test without the test for an empty freelist.
NotBelowThreshold_NoEmptyCheck(fl, threshold_index) == fl.next >= threshold_index

\* The threshold compared with the last entry of the freelist.
NotBelowThreshold_LastEntry(fl, threshold_index) ==
  is_empty(fl) \/ fl.next + fl.length - 1 >= threshold_index
\* The comparison with the threshold off by one.
NotBelowThreshold_OffByOne(fl, threshold_index) ==
  is_empty(fl) \/ fl.next > threshold_index
\* Whether AllocateEntryBelow gives up on the loaded head (line 204).
NotBelowThreshold(fl, threshold_index) ==
  is_empty(fl) \/ fl.next >= threshold_index

\* AllocateEntryBelow growing the space on an empty freelist, as AllocateEntry does.
AllocateEntryBelow_Next_Grow(fl, threshold_index) ==
  IF is_empty(fl) THEN "AE_lock"
  ELSE IF fl.next >= threshold_index THEN "returned" ELSE "TA_read"
\* Where AllocateEntryBelow goes on from the loaded head (lines 204-206).
AllocateEntryBelow_Next(fl, threshold_index) ==
  IF NotBelowThreshold(fl, threshold_index) THEN "returned" ELSE "TA_read"

\* lines 202-204.
AllocateEntryBelow_Load(th) ==
  /\ ~fatal
  /\ pc[th] = "AB_load"
  /\ LET next_pc == AllocateEntryBelow_Next(freelist_head_[Space(th)], call[th].threshold)
     IN /\ pc' = [pc EXCEPT ![th] = next_pc]
        /\ freelist' = [freelist EXCEPT ![th] =
                          IF next_pc = "returned" THEN EmptyFreelistHead
                          ELSE freelist_head_[Space(th)]]
  /\ result' = [result EXCEPT ![th] = 0]     \* return 0
  /\ UNCHANGED <<table_vars, space_vars, call, next_freelist_entry, segment,
                 history_vars, dchecks, fatal>>
  /\ UNCHANGED marking_vars

\* lines 209-213.
AllocateEntryBelow_Return(th) ==
  /\ ~fatal
  /\ pc[th] = "AB_ret"
  /\ LET allocated_entry == freelist[th].next
     IN /\ result' = [result EXCEPT ![th] = allocated_entry]
        /\ allocated' = [allocated EXCEPT ![Space(th)][allocated_entry] = @ + 1]
        /\ dchecks' = dchecks
             \cup DCheck("AllocateEntryBelow: space->Contains(allocated_entry)",
                         Contains(Space(th), allocated_entry))
             \cup DCheck("AllocateEntryBelow: allocated_entry != 0", allocated_entry # 0)
             \cup DCheck("AllocateEntryBelow: allocated_entry < threshold_index",
                         allocated_entry < call[th].threshold)
  /\ pc' = [pc EXCEPT ![th] = "returned"]
  /\ freelist' = [freelist EXCEPT ![th] = EmptyFreelistHead]
  /\ UNCHANGED <<table_vars, space_vars, call, next_freelist_entry, segment,
                 ncalls, fatal>>
  /\ UNCHANGED marking_vars

\* The caller takes the returned index; a nonzero index is now its entry and
\* it overwrites the freelist link with its payload (the comment at lines
\* 228-230: "another thread may have allocated and overwritten the same
\* entry in the meantime").
Caller_UseEntry(th) ==
  /\ ~fatal
  /\ pc[th] = "returned"
  /\ entries' = IF result[th] # 0
                THEN [entries EXCEPT ![Table(th)][result[th]] = PayloadEntry]
                ELSE entries
  /\ pc' = [pc EXCEPT ![th] = "idle"]
  /\ call' = [call EXCEPT ![th] = NoCall]
  /\ result' = [result EXCEPT ![th] = 0]
  /\ UNCHANGED <<base_, vas_pages, space_vars, freelist, next_freelist_entry,
                 segment, history_vars, dchecks, fatal>>
  /\ UNCHANGED marking_vars

Next ==
  \/ \E t \in Tables : InitializeTable(t)
  \/ \E t \in Tables, s \in Spaces : InitializeSpace(t, s)
  \/ \E t \in Tables, s \in Spaces : TearDownSpace(t, s)
  \/ \E th \in Threads, s \in Spaces : BeginCall(th, "AllocateEntry", s, 0)
  \/ \E th \in Threads, s \in Spaces, T \in Thresholds :
       BeginCall(th, "AllocateEntryBelow", s, T)
  \/ \E th \in Threads :
       \/ AllocateEntry_Load(th)
       \/ AllocateEntry_Lock(th)
       \/ AllocateEntry_Reload(th)
       \/ Extend_AllocateSegment(th)
       \/ Extend_Link(th)
       \/ Extend_Publish(th)
       \/ AllocateEntry_Unlock(th)
       \/ TryAllocateEntryFromFreelist_Read(th)
       \/ TryAllocateEntryFromFreelist_CAS(th)
       \/ AllocateEntry_Return(th)
       \/ AllocateEntryBelow_Load(th)
       \/ AllocateEntryBelow_Return(th)
       \/ Caller_UseEntry(th)

Spec == Init /\ [][Next]_vars

\* ------------------------------------------------ table and space teardown
\* lines 118-128: the only check is DCHECK(is_initialized()); the first segment
\* is freed, base_ is reset and deleting vas_ gives the whole reservation back,
\* whatever the Spaces still hold.  No call runs on the table meanwhile.
TearDownTable(table) ==
  /\ ~fatal
  /\ is_initialized(table)            \* DCHECK(is_initialized())
  /\ \A th \in Threads :
       call[th].space # nullptr => owning_table_[call[th].space] # table
  /\ base_' = [base_ EXCEPT ![table] = nullptr]
  /\ vas_pages' = [vas_pages EXCEPT ![table] = {}]
  /\ entries' = [entries EXCEPT ![table] = [i \in Indices |-> FreshEntry]]
  /\ UNCHANGED <<space_vars, thread_vars, history_vars, dchecks, fatal>>
  /\ UNCHANGED marking_vars

\* lines 138-146 on a table that is no longer initialized: DCHECK(is_initialized())
\* fails; FreeTableSegment then calls through the null vas_ for the first
\* segment the Space holds, which ends the process before segments_.clear().
TearDownSpace_Uninitialized(table, space) ==
  /\ ~fatal
  /\ ~is_initialized(table)
  /\ BelongsTo(space, table)          \* DCHECK(space->BelongsTo(this))
  /\ SpaceIsLive(space)
  /\ \A th \in Threads : call[th].space # space
  /\ dchecks' = dchecks \cup DCheck("TearDownSpace: is_initialized()", FALSE)
  /\ fatal' = (segments_[space] # {})
  /\ torn_down' = torn_down \cup {space}
  /\ UNCHANGED <<table_vars, freelist_head_, segments_, mutex_, owning_table_,
                 thread_vars, history_vars>>
  /\ UNCHANGED marking_vars

\* lines 34-39: ~Space of a Space that TearDownSpace has not visited.
Space_Destructor(space) ==
  /\ ~fatal
  /\ SpaceIsLive(space)
  /\ \A th \in Threads : call[th].space # space
  /\ dchecks' = dchecks \cup DCheck("~Space: segments_.empty()", segments_[space] = {})
  /\ torn_down' = torn_down \cup {space}
  /\ UNCHANGED <<table_vars, freelist_head_, segments_, mutex_, owning_table_,
                 thread_vars, history_vars, fatal>>
  /\ UNCHANGED marking_vars

\* The lifecycle of one table and its Spaces, in any order of the teardown
\* calls.  The table is initialized once, before a Space registers with it;
\* entries are allocated by AllocateEntry.
LifecycleTable == "T1"
LifecycleNext ==
  \/ InitializeTable(LifecycleTable)
       /\ \A s \in Spaces : owning_table_[s] = nullptr
  \/ \E s \in Spaces : InitializeSpace(LifecycleTable, s)
  \/ \E s \in Spaces : TearDownSpace(LifecycleTable, s)
  \/ \E s \in Spaces : TearDownSpace_Uninitialized(LifecycleTable, s)
  \/ \E s \in Spaces : Space_Destructor(s)
  \/ TearDownTable(LifecycleTable)
  \/ \E th \in Threads, s \in Spaces : BeginCall(th, "AllocateEntry", s, 0)
  \/ \E th \in Threads :
       \/ AllocateEntry_Load(th)
       \/ AllocateEntry_Lock(th)
       \/ AllocateEntry_Reload(th)
       \/ Extend_AllocateSegment(th)
       \/ Extend_Link(th)
       \/ Extend_Publish(th)
       \/ AllocateEntry_Unlock(th)
       \/ TryAllocateEntryFromFreelist_Read(th)
       \/ TryAllocateEntryFromFreelist_CAS(th)
       \/ AllocateEntry_Return(th)
       \/ Caller_UseEntry(th)

LifecycleSpec == Init /\ [][LifecycleNext]_vars

\* ------------------------------------------------------- fair scheduling
\* One step of the call a thread is running.
ThreadStep(th) ==
  \/ AllocateEntry_Load(th)
  \/ AllocateEntry_Lock(th)
  \/ AllocateEntry_Reload(th)
  \/ Extend_AllocateSegment(th)
  \/ Extend_Link(th)
  \/ Extend_Publish(th)
  \/ AllocateEntry_Unlock(th)
  \/ TryAllocateEntryFromFreelist_Read(th)
  \/ TryAllocateEntryFromFreelist_CAS(th)
  \/ AllocateEntry_Return(th)
  \/ AllocateEntryBelow_Load(th)
  \/ AllocateEntryBelow_Return(th)
  \/ Caller_UseEntry(th)

\* Allocation calls on the Spaces of one table.
AllocationNext ==
  \/ InitializeTable(LifecycleTable)
  \/ \E s \in Spaces : InitializeSpace(LifecycleTable, s)
  \/ \E th \in Threads, s \in Spaces : BeginCall(th, "AllocateEntry", s, 0)
  \/ \E th \in Threads, s \in Spaces, T \in Thresholds :
       BeginCall(th, "AllocateEntryBelow", s, T)
  \/ \E th \in Threads : ThreadStep(th)

\* Every thread that can take a step of its call is eventually scheduled: the
\* threads are OS threads, and a thread blocked on the base::Mutex of line 171
\* is runnable again when the holder's guard is destroyed.
FairSpec ==
  Init /\ [][AllocationNext]_vars /\ \A th \in Threads : WF_vars(ThreadStep(th))

\* ------------------------------------------- calls after TearDownSpace
\* AllocateEntry or AllocateEntryBelow called on a Space whose TearDownSpace
\* has run; the DCHECKs of lines 150-151 hold, the table being initialized and
\* the Space still registered with it.
BeginCall_AfterTearDown(th, op, space, threshold) ==
  /\ ~fatal
  /\ pc[th] = "idle"
  /\ ncalls < MaxCalls
  /\ owning_table_[space] # nullptr
  /\ is_initialized(owning_table_[space])
  /\ space \in torn_down
  /\ call' = [call EXCEPT ![th] =
                [space |-> space, threshold |-> threshold, op |-> op]]
  /\ pc' = [pc EXCEPT ![th] = IF op = "AllocateEntry" THEN "AE_load" ELSE "AB_load"]
  /\ ncalls' = ncalls + 1
  /\ UNCHANGED <<table_vars, space_vars, freelist, next_freelist_entry,
                 segment, result, allocated, dchecks, fatal>>
  /\ UNCHANGED marking_vars

\* lines 219-223 when the pages of the head entry have been freed and not
\* been allocated again: DCHECK(space->Contains(freelist.next())) fails, and
\* without DCHECKs the read of line 223 touches pages that are not mapped;
\* either way the process ends.
TryAllocateEntryFromFreelist_ReadUnmapped(th) ==
  /\ ~fatal
  /\ pc[th] = "TA_read"
  /\ ~IsMapped(Table(th), freelist[th].next)
  /\ dchecks' = dchecks
       \cup DCheck("TryAllocateEntryFromFreelist: !freelist.is_empty()",
                   ~is_empty(freelist[th]))
       \cup DCheck("TryAllocateEntryFromFreelist: space->Contains(freelist.next())",
                   Contains(Space(th), freelist[th].next))
  /\ fatal' = TRUE
  /\ UNCHANGED <<table_vars, space_vars, thread_vars, history_vars>>
  /\ UNCHANGED marking_vars

\* The Spaces of one table, called before and after their TearDownSpace.
AfterTearDownNext ==
  \/ InitializeTable(LifecycleTable)
  \/ \E s \in Spaces : InitializeSpace(LifecycleTable, s)
  \/ \E s \in Spaces : TearDownSpace(LifecycleTable, s)
  \/ \E th \in Threads, s \in Spaces : BeginCall(th, "AllocateEntry", s, 0)
  \/ \E th \in Threads, s \in Spaces, T \in Thresholds :
       BeginCall(th, "AllocateEntryBelow", s, T)
  \/ \E th \in Threads, s \in Spaces :
       BeginCall_AfterTearDown(th, "AllocateEntry", s, 0)
  \/ \E th \in Threads, s \in Spaces, T \in Thresholds :
       BeginCall_AfterTearDown(th, "AllocateEntryBelow", s, T)
  \/ \E th \in Threads : ThreadStep(th)
  \/ \E th \in Threads : TryAllocateEntryFromFreelist_ReadUnmapped(th)

AfterTearDownSpec == Init /\ [][AfterTearDownNext]_vars

\* ------------------------------------------------------- marking visitor
\* Everything but the failed checks belongs to the entity table.
entity_table_vars == <<table_vars, space_vars, thread_vars, history_vars, fatal>>

\* A test-and-set that reports success whatever the bit was.
TryMark_Always(bit) == TRUE
\* marking_state()->TryMark(object): sets the mark bit and returns whether this
\* call was the one that set it.
TryMark(bit) == ~bit

\* Where a visit goes on after a slot of the host: the next slot or entry, the
\* progress bar update of a fixed array, or the end of the visit.
NextPc(host, rest) ==
  IF rest # <<>>
  THEN (IF host \in EphemeronHashTables THEN "EH_key" ELSE "VisitPointers")
  ELSE (IF host \in FixedArrays THEN "FA_cas" ELSE "idle")
Continue(th, rest) ==
  IF NextPc(frame[th].host, rest) = "idle"
  THEN IdleFrame
  ELSE [frame[th] EXCEPT !.pc = NextPc(frame[th].host, rest), !.slots = rest]

\* The collector driver pops an object and dispatches on its visitor id.
FirstPc(object) ==
  IF object \in FixedArrays THEN "FA_load"
  ELSE IF object \in Maps THEN "DM_trymark"
  ELSE IF object \in DescriptorArrays THEN "DA_acquire"
  ELSE IF object \in EphemeronHashTables THEN "EH_push"
  ELSE IF object \in WeakCells THEN "WC_target"
  ELSE IF object \in SharedFunctionInfos THEN "SF_visit"
  ELSE IF object \in JSFunctions THEN "JS_visit"
  ELSE "idle"
Pop(th, object) ==
  /\ frame[th].pc = "idle"
  /\ worklist[object] > 0
  /\ worklist' = [worklist EXCEPT ![object] = @ - 1]
  /\ frame' = [frame EXCEPT ![th] =
                 IF FirstPc(object) = "idle" THEN IdleFrame
                 ELSE [IdleFrame EXCEPT !.pc = FirstPc(object), !.host = object]]
  /\ UNCHANGED <<marked, progress_bar, gc_state, ephemeron_hash_tables,
                 discovered_ephemerons, try_mark_true, pushes, scanned>>
  /\ UNCHANGED <<descriptor_visits, weak_object_vars, entity_table_vars, dchecks, slot_vars>>

\* concrete_visitor()->RecordSlot(host, slot, target): the slot is noted down.
RecordSlot(host, slot) == [recorded_slots EXCEPT ![host] = @ \cup {slot}]
\* weak_references_local.Push(std::make_pair(host, slot)).
PushWeakReference(host, slot) == [weak_references EXCEPT ![host] = @ \cup {slot}]
\* lines 91-92: slot.Relaxed_Load(cage_base()).  Only the transitions slot of
\* a map is written while the visitor runs.
Relaxed_Load(host, slot) ==
  IF kCanBeWeak(host, slot) THEN raw_transitions[host]
  ELSE Strong(SlotValue(host, slot))
\* Takes no loaded value for a strong reference.
GetHeapObjectIfStrong_Never(object) == FALSE
\* line 94: object.GetHeapObjectIfStrong(&heap_object).
GetHeapObjectIfStrong(object) == ~object.weak

\* line 99: object.GetHeapObjectIfWeak(&heap_object).
GetHeapObjectIfWeak(object) == object.weak

\* lines 90-100: one turn of the loop of VisitPointersImpl, the relaxed load
\* of the slot and the dispatch on the loaded value.
VisitPointers_Slot(th) ==
  /\ frame[th].pc = "VisitPointers"
  /\ LET host == frame[th].host
         slot == Head(frame[th].slots)
         rest == Tail(frame[th].slots)
         object == Relaxed_Load(host, slot)
     IN /\ scanned' = IF host \in FixedArrays
                      THEN [scanned EXCEPT ![host][slot] = @ + 1]
                      ELSE scanned
        /\ frame' = [frame EXCEPT ![th] =
                       IF GetHeapObjectIfStrong(object)
                       THEN [@ EXCEPT !.pc = "ProcessStrong", !.slot = slot,
                                      !.object = object.object, !.slots = rest]
                       ELSE IF kCanBeWeak(host, slot) /\ GetHeapObjectIfWeak(object)
                       THEN [@ EXCEPT !.pc = "ProcessWeak", !.slot = slot,
                                      !.object = object.object, !.slots = rest]
                       ELSE Continue(th, rest)]
  /\ UNCHANGED <<marked, worklist, progress_bar, gc_state, ephemeron_hash_tables,
                 discovered_ephemerons, try_mark_true, pushes>>
  /\ UNCHANGED <<descriptor_visits, weak_object_vars, entity_table_vars, dchecks, slot_vars>>

\* lines 52-57 and 36-39: ProcessStrongHeapObject up to the TryMark of
\* MarkObject; when the TryMark fails, RecordSlot follows at once.
ProcessStrongHeapObject(th) ==
  /\ frame[th].pc = "ProcessStrong"
  /\ LET host == frame[th].host
         slot == frame[th].slot
         object == frame[th].object
         first == ShouldMarkObject(object) /\ TryMark(marked[object])
     IN /\ marked' = IF ShouldMarkObject(object)
                     THEN [marked EXCEPT ![object] = TRUE]
                     ELSE marked
        /\ try_mark_true' = IF first
                            THEN [try_mark_true EXCEPT ![object] = @ + 1]
                            ELSE try_mark_true
        /\ recorded_slots' = IF ShouldMarkObject(object) /\ ~first
                             THEN RecordSlot(host, slot)
                             ELSE recorded_slots
        /\ frame' = [frame EXCEPT ![th] =
                       IF first THEN [@ EXCEPT !.pc = "MO_push"]
                       ELSE Continue(th, frame[th].slots)]
  /\ UNCHANGED <<worklist, progress_bar, gc_state, ephemeron_hash_tables,
                 discovered_ephemerons, pushes, scanned>>
  /\ UNCHANGED <<raw_transitions, weak_references, mutator>>
  /\ UNCHANGED <<descriptor_visits, weak_object_vars, entity_table_vars, dchecks>>

\* line 40: local_marking_worklists_->Push(object) after a successful TryMark,
\* and line 57: RecordSlot.
MarkObject_Push(th) ==
  /\ frame[th].pc = "MO_push"
  /\ worklist' = [worklist EXCEPT ![frame[th].object] = @ + 1]
  /\ pushes' = [pushes EXCEPT ![frame[th].object]["MarkObject"] = @ + 1]
  /\ recorded_slots' = RecordSlot(frame[th].host, frame[th].slot)
  /\ frame' = [frame EXCEPT ![th] = Continue(th, frame[th].slots)]
  /\ UNCHANGED <<marked, progress_bar, gc_state, ephemeron_hash_tables,
                 discovered_ephemerons, try_mark_true, scanned>>
  /\ UNCHANGED <<raw_transitions, weak_references, mutator>>
  /\ UNCHANGED <<descriptor_visits, weak_object_vars, entity_table_vars, dchecks>>

\* Takes every object to be unmarked.
IsMarked_Never(bit) == FALSE
\* Takes every object to be marked.
IsMarked_Always(bit) == TRUE
\* marking_state()->IsMarked(object): reads the mark bit.
IsMarked(bit) == bit

\* lines 64-79: ProcessWeakHeapObject.
ProcessWeakHeapObject(th) ==
  /\ frame[th].pc = "ProcessWeak"
  /\ LET host == frame[th].host
         slot == frame[th].slot
         object == frame[th].object
     IN /\ recorded_slots' = IF ShouldMarkObject(object) /\ IsMarked(marked[object])
                             THEN RecordSlot(host, slot)
                             ELSE recorded_slots
        /\ weak_references' = IF ShouldMarkObject(object) /\ ~IsMarked(marked[object])
                              THEN PushWeakReference(host, slot)
                              ELSE weak_references
  /\ frame' = [frame EXCEPT ![th] = Continue(th, frame[th].slots)]
  /\ UNCHANGED <<marked, worklist, progress_bar, gc_state, ephemeron_hash_tables,
                 discovered_ephemerons, try_mark_true, pushes, scanned>>
  /\ UNCHANGED <<raw_transitions, mutator>>
  /\ UNCHANGED <<descriptor_visits, weak_object_vars, entity_table_vars, dchecks>>

\* A chunk end that is not clamped to the size of the array.
ChunkEnd_Unclamped(size, start) == start + kProgressBarScanningChunk
\* line 365: int end = std::min(size, start + kProgressBarScanningChunk).
ChunkEnd(size, start) == Min(size, start + kProgressBarScanningChunk)

\* lines 357-367: read the progress bar, visit the map pointer on the first
\* increment, fix the chunk [start, end) and start VisitPointers on it.
VisitFixedArrayWithProgressBar_Load(th) ==
  /\ frame[th].pc = "FA_load"
  /\ LET object == frame[th].host
         current_progress_bar == progress_bar[object]
         start == IF current_progress_bar = 0 THEN kStartOffset
                  ELSE current_progress_bar
         end == ChunkEnd(FixedArraySize, start)
     IN /\ dchecks' = dchecks
             \cup DCheck("VisitFixedArrayWithProgressBar: IsMarked(object)",
                         marked[object])
        /\ scanned' = IF current_progress_bar = 0
                      THEN [scanned EXCEPT ![object] =
                              [i \in ScannedOffsets(object) |->
                                 IF i < kStartOffset THEN @[i] + 1 ELSE @[i]]]
                      ELSE scanned
        /\ frame' = [frame EXCEPT ![th] =
                       IF start < end
                       THEN [@ EXCEPT !.pc = "VisitPointers",
                                      !.slots = Range(start, end),
                                      !.current_progress_bar = current_progress_bar,
                                      !.end = end]
                       ELSE IdleFrame]
  /\ UNCHANGED <<marked, worklist, progress_bar, gc_state, ephemeron_hash_tables,
                 discovered_ephemerons, try_mark_true, pushes>>
  /\ UNCHANGED <<descriptor_visits, weak_object_vars, entity_table_vars, slot_vars>>

\* Pushes the array back after every chunk.
ScanIncomplete_Always(end, size) == TRUE
\* Never pushes the array back.
ScanIncomplete_Never(end, size) == FALSE
\* line 370: if (end < size).
ScanIncomplete(end, size) == end < size

\* A store that does not compare.
TrySetNewValue_Store(value, old_value) == TRUE
\* A compare-and-swap that finds another value than the expected one.
TrySetNewValue_Never(value, old_value) == FALSE
\* ProgressBar::TrySetNewValue(old_value, new_value): a compare-and-swap.
TrySetNewValue(value, old_value) == value = old_value

\* lines 368-370: the progress bar update and the CHECK on it.
VisitFixedArrayWithProgressBar_TrySetNewValue(th) ==
  /\ frame[th].pc = "FA_cas"
  /\ LET object == frame[th].host
         success == TrySetNewValue(progress_bar[object],
                                   frame[th].current_progress_bar)
     IN /\ progress_bar' = IF success
                           THEN [progress_bar EXCEPT ![object] = frame[th].end]
                           ELSE progress_bar
        /\ dchecks' = dchecks
             \cup DCheck("VisitFixedArrayWithProgressBar: CHECK(success)", success)
        /\ frame' = [frame EXCEPT ![th] =
                       IF success /\ ScanIncomplete(frame[th].end, FixedArraySize)
                       THEN [@ EXCEPT !.pc = "FA_push"]
                       ELSE IdleFrame]
  /\ UNCHANGED <<marked, worklist, gc_state, ephemeron_hash_tables,
                 discovered_ephemerons, try_mark_true, pushes, scanned>>
  /\ UNCHANGED <<descriptor_visits, weak_object_vars, entity_table_vars, slot_vars>>

\* lines 370-375: the array goes back onto the marking worklist.
VisitFixedArrayWithProgressBar_Push(th) ==
  /\ frame[th].pc = "FA_push"
  /\ LET object == frame[th].host
     IN /\ dchecks' = dchecks
             \cup DCheck("VisitFixedArrayWithProgressBar: ShouldMarkObject(object)",
                         ShouldMarkObject(object))
        /\ worklist' = [worklist EXCEPT ![object] = @ + 1]
        /\ pushes' = [pushes EXCEPT
                        ![object]["VisitFixedArrayWithProgressBar"] = @ + 1]
  /\ frame' = [frame EXCEPT ![th] = IdleFrame]
  /\ UNCHANGED <<marked, progress_bar, gc_state, ephemeron_hash_tables,
                 discovered_ephemerons, try_mark_true, scanned>>
  /\ UNCHANGED <<descriptor_visits, weak_object_vars, entity_table_vars, slot_vars>>

\* map.instance_descriptors(): both maps share the one descriptor array.
Descriptors(map) == "descs"
\* Marks all of the array for every map.
DescriptorsToMark_All(number_of_own_descriptors, number_of_descriptors) ==
  number_of_descriptors
\* lines 666-667: std::min<int>(number_of_own_descriptors, number_of_descriptors()).
DescriptorsToMark(number_of_own_descriptors, number_of_descriptors) ==
  Min(number_of_own_descriptors, number_of_descriptors)

\* DescriptorArrayMarkingState::TryUpdateIndicesToMark: raises the number of
\* descriptors to mark to index_to_mark; updated is its return value.
TryUpdateIndicesToMark(state, index_to_mark) ==
  IF state.epoch # mark_compact_epoch_
  THEN [updated |-> TRUE, state |-> NewState(mark_compact_epoch_, 0, index_to_mark)]
  ELSE IF state.marked + state.delta >= index_to_mark
  THEN [updated |-> FALSE, state |-> state]
  ELSE [updated |-> TRUE,
        state |-> NewState(mark_compact_epoch_, state.marked,
                           index_to_mark - state.marked)]
\* DescriptorArrayMarkingState::AcquireDescriptorRangeToMark: hands out the
\* descriptors between the high-water mark and the number to mark, and moves
\* the high-water mark; an array of an older epoch is handed out whole.
AcquireDescriptorRangeToMark(state) ==
  IF state.epoch # mark_compact_epoch_ \/ state.marked + state.delta = 0
  THEN [start |-> 0, end |-> NumberOfDescriptors,
        state |-> NewState(mark_compact_epoch_, NumberOfDescriptors, 0)]
  ELSE IF state.delta = 0
  THEN [start |-> state.marked, end |-> state.marked, state |-> state]
  ELSE [start |-> state.marked, end |-> state.marked + state.delta,
        state |-> NewState(mark_compact_epoch_, state.marked + state.delta, 0)]

\* lines 627-668: the early returns do not apply (values can be updated, the
\* map can transition, the array is a weak descriptor array outside the
\* read-only space); TryMark(descriptors) when the map owns descriptors.
VisitDescriptorsForMap_TryMark(th) ==
  /\ frame[th].pc = "DM_trymark"
  /\ LET map == frame[th].host
         descriptors == Descriptors(map)
     IN IF NumberOfOwnDescriptors(map) # 0
        THEN /\ marked' = [marked EXCEPT ![descriptors] = TRUE]
             /\ try_mark_true' = IF TryMark(marked[descriptors])
                                 THEN [try_mark_true EXCEPT ![descriptors] = @ + 1]
                                 ELSE try_mark_true
             /\ frame' = [frame EXCEPT ![th].pc = "DM_update"]
        ELSE /\ frame' = [frame EXCEPT ![th] =
                            [@ EXCEPT !.pc = "VisitPointers", !.slots = MapSlots]]
             /\ UNCHANGED <<marked, try_mark_true>>
  /\ UNCHANGED <<worklist, progress_bar, gc_state, ephemeron_hash_tables,
                 discovered_ephemerons, pushes, scanned>>
  /\ UNCHANGED <<descriptor_visits, weak_object_vars, entity_table_vars, dchecks, slot_vars>>

\* lines 669-670.
VisitDescriptorsForMap_TryUpdateIndicesToMark(th) ==
  /\ frame[th].pc = "DM_update"
  /\ LET map == frame[th].host
         descriptors == Descriptors(map)
         descriptors_to_mark == DescriptorsToMark(NumberOfOwnDescriptors(map),
                                                  NumberOfDescriptors)
         update == TryUpdateIndicesToMark(gc_state[descriptors], descriptors_to_mark)
     IN /\ gc_state' = [gc_state EXCEPT ![descriptors] = update.state]
        /\ frame' = [frame EXCEPT ![th] =
                       IF update.updated
                       THEN [@ EXCEPT !.pc = "DM_push"]
                       ELSE [@ EXCEPT !.pc = "VisitPointers", !.slots = MapSlots]]
  /\ UNCHANGED <<marked, worklist, progress_bar, ephemeron_hash_tables,
                 discovered_ephemerons, try_mark_true, pushes, scanned>>
  /\ UNCHANGED <<descriptor_visits, weak_object_vars, entity_table_vars, dchecks, slot_vars>>

\* line 671, then line 685: VisitMap goes on with the pointer fields of the map.
VisitDescriptorsForMap_Push(th) ==
  /\ frame[th].pc = "DM_push"
  /\ LET descriptors == Descriptors(frame[th].host)
     IN /\ worklist' = [worklist EXCEPT ![descriptors] = @ + 1]
        /\ pushes' = [pushes EXCEPT ![descriptors]["VisitDescriptorsForMap"] = @ + 1]
  /\ frame' = [frame EXCEPT ![th] =
                 [@ EXCEPT !.pc = "VisitPointers", !.slots = MapSlots]]
  /\ UNCHANGED <<marked, progress_bar, gc_state, ephemeron_hash_tables,
                 discovered_ephemerons, try_mark_true, scanned>>
  /\ UNCHANGED <<descriptor_visits, weak_object_vars, entity_table_vars, dchecks, slot_vars>>

\* Visits the header with every range that is not empty.
VisitsHeader_EveryRange(start, end) == start # end
\* lines 605 and 609: the header is visited with a range that is not empty
\* and begins at descriptor 0.
VisitsHeader(start, end) == start # end /\ start = 0
\* DescriptorArray::BodyDescriptor::SizeOf(map, array): the header and the
\* descriptors.
DescriptorArray_SizeOf == 1 + NumberOfDescriptors

\* lines 602-621: acquire a range and visit its descriptors, none of which
\* holds a heap reference here; visit the header with the first range.
VisitDescriptorArray(th) ==
  /\ frame[th].pc = "DA_acquire"
  /\ LET array == frame[th].host
         range == AcquireDescriptorRangeToMark(gc_state[array])
         header == VisitsHeader(range.start, range.end)
     IN /\ gc_state' = [gc_state EXCEPT ![array] = range.state]
        /\ scanned' = [scanned EXCEPT ![array] =
                         [i \in ScannedOffsets(array) |->
                            IF range.start <= i /\ i < range.end
                            THEN @[i] + 1 ELSE @[i]]]
        /\ descriptor_visits' =
             [descriptor_visits EXCEPT ![array] =
                [header |-> IF header THEN @.header + 1 ELSE @.header,
                 returned |-> Append(@.returned,
                                     [start |-> range.start, end |-> range.end,
                                      size |-> IF header
                                               THEN DescriptorArray_SizeOf
                                               ELSE 0])]]
        /\ dchecks' = dchecks
             \cup DCheck("VisitDescriptorArray: start < end",
                         range.start # range.end => range.start < range.end)
  /\ frame' = [frame EXCEPT ![th] = IdleFrame]
  /\ UNCHANGED <<marked, worklist, progress_bar, ephemeron_hash_tables,
                 discovered_ephemerons, try_mark_true, pushes>>
  /\ UNCHANGED <<weak_object_vars, entity_table_vars, slot_vars>>

Ephemeron(key, value) == [key |-> key, value |-> value]
\* The entry the running table visit is at.
CurrentEntry(th) == Entries(frame[th].host)[Head(frame[th].slots)]

\* line 474: the table is registered before its entries are looked at.
VisitEphemeronHashTable_Push(th) ==
  /\ frame[th].pc = "EH_push"
  /\ ephemeron_hash_tables' = ephemeron_hash_tables \cup {frame[th].host}
  /\ frame' = [frame EXCEPT ![th] =
                 Continue(th, Range(1, Len(Entries(frame[th].host)) + 1))]
  /\ UNCHANGED <<marked, worklist, progress_bar, gc_state, discovered_ephemerons,
                 try_mark_true, pushes, scanned>>
  /\ UNCHANGED <<descriptor_visits, weak_object_vars, entity_table_vars, dchecks, slot_vars>>

\* lines 477-493: the key slot is recorded and the mark bit of the key read.
VisitEphemeronHashTable_Key(th) ==
  /\ frame[th].pc = "EH_key"
  /\ LET key == CurrentEntry(th).key
     IN frame' = [frame EXCEPT ![th].pc =
                    IF InReadOnlySpace(key) \/ IsMarked(marked[key])
                    THEN "EH_visit" ELSE "EH_value"]
  /\ recorded_slots' = RecordSlot(frame[th].host, <<"key", Head(frame[th].slots)>>)
  /\ UNCHANGED <<marked, worklist, progress_bar, gc_state, ephemeron_hash_tables,
                 discovered_ephemerons, try_mark_true, pushes, scanned>>
  /\ UNCHANGED <<raw_transitions, weak_references, mutator>>
  /\ UNCHANGED <<descriptor_visits, weak_object_vars, entity_table_vars, dchecks>>

\* line 494: VisitPointer(table, value_slot), up to the TryMark of MarkObject.
VisitEphemeronHashTable_VisitPointer(th) ==
  /\ frame[th].pc = "EH_visit"
  /\ LET value == CurrentEntry(th).value
         rest == Tail(frame[th].slots)
         should_mark == IsHeapObject(value) /\ ShouldMarkObject(value)
         first == should_mark /\ TryMark(marked[value])
     IN /\ marked' = IF should_mark
                     THEN [marked EXCEPT ![value] = TRUE]
                     ELSE marked
        /\ try_mark_true' = IF first
                            THEN [try_mark_true EXCEPT ![value] = @ + 1]
                            ELSE try_mark_true
        /\ recorded_slots' = IF should_mark /\ ~first
                             THEN RecordSlot(frame[th].host,
                                             <<"value", Head(frame[th].slots)>>)
                             ELSE recorded_slots
        /\ frame' = [frame EXCEPT ![th] =
                       IF first
                       THEN [@ EXCEPT !.pc = "MO_push", !.object = value,
                                      !.slot = <<"value", Head(frame[th].slots)>>,
                                      !.slots = rest]
                       ELSE Continue(th, rest)]
  /\ UNCHANGED <<worklist, progress_bar, gc_state, ephemeron_hash_tables,
                 discovered_ephemerons, pushes, scanned>>
  /\ UNCHANGED <<raw_transitions, weak_references, mutator>>
  /\ UNCHANGED <<descriptor_visits, weak_object_vars, entity_table_vars, dchecks>>

\* Never asks for a revisit.
IsUnmarked_Never(bit) == FALSE
\* Asks for a revisit whatever the mark bit is.
IsUnmarked_Always(bit) == TRUE
\* line 508: marking_state()->IsUnmarked(value).
IsUnmarked(bit) == ~bit

\* lines 496-511: the key was unmarked; the value slot is recorded and the pair
\* is pushed for a revisit when the value is unmarked.
VisitEphemeronHashTable_Value(th) ==
  /\ frame[th].pc = "EH_value"
  /\ LET key == CurrentEntry(th).key
         value == CurrentEntry(th).value
     IN /\ discovered_ephemerons' =
             IF IsHeapObject(value) /\ ShouldMarkObject(value)
                  /\ IsUnmarked(marked[value])
             THEN discovered_ephemerons \cup {Ephemeron(key, value)}
             ELSE discovered_ephemerons
        /\ recorded_slots' =
             IF IsHeapObject(value)
             THEN RecordSlot(frame[th].host, <<"value", Head(frame[th].slots)>>)
             ELSE recorded_slots
  /\ frame' = [frame EXCEPT ![th] = Continue(th, Tail(frame[th].slots))]
  /\ UNCHANGED <<marked, worklist, progress_bar, gc_state, ephemeron_hash_tables,
                 try_mark_true, pushes, scanned>>
  /\ UNCHANGED <<raw_transitions, weak_references, mutator>>
  /\ UNCHANGED <<descriptor_visits, weak_object_vars, entity_table_vars, dchecks>>

\* local_weak_objects_-><worklist>_local.Push(object).
PushWeakObject(worklist_name, object) ==
  [local_weak_objects_ EXCEPT ![worklist_name][object] = @ + 1]

\* lines 545-553: the body of a weak cell holds no strong reference here;
\* the target is read and its liveness looked up.  With a target that is not
\* live the token is not looked at and the cell is pushed, line 566.
VisitWeakCell_Target(th) ==
  /\ frame[th].pc = "WC_target"
  /\ LET weak_cell == frame[th].host
         target == relaxed_target(weak_cell)
     IN IF InReadOnlySpace(target) \/ IsMarked(marked[target])
        THEN /\ frame' = [frame EXCEPT ![th].pc = "WC_token"]
             /\ UNCHANGED local_weak_objects_
        ELSE /\ frame' = [frame EXCEPT ![th] = IdleFrame]
             /\ local_weak_objects_' = PushWeakObject("weak_cells", weak_cell)
  /\ UNCHANGED <<marked, worklist, progress_bar, gc_state, ephemeron_hash_tables,
                 discovered_ephemerons, try_mark_true, pushes, scanned>>
  /\ UNCHANGED <<descriptor_visits, flushing_vars, entity_table_vars, dchecks,
               slot_vars>>

\* lines 554-568: the liveness of the unregister token is looked up; both
\* slots are recorded, or the cell is pushed.
VisitWeakCell_Token(th) ==
  /\ frame[th].pc = "WC_token"
  /\ LET weak_cell == frame[th].host
         unregister_token == relaxed_unregister_token(weak_cell)
     IN IF InReadOnlySpace(unregister_token) \/ IsMarked(marked[unregister_token])
        THEN /\ recorded_slots' =
                  [recorded_slots EXCEPT ![weak_cell] =
                     @ \cup {"kTargetOffset", "kUnregisterTokenOffset"}]
             /\ UNCHANGED local_weak_objects_
        ELSE /\ local_weak_objects_' = PushWeakObject("weak_cells", weak_cell)
             /\ UNCHANGED recorded_slots
  /\ frame' = [frame EXCEPT ![th] = IdleFrame]
  /\ UNCHANGED <<marked, worklist, progress_bar, gc_state, ephemeron_hash_tables,
                 discovered_ephemerons, try_mark_true, pushes, scanned>>
  /\ UNCHANGED <<raw_transitions, weak_references, mutator>>
  /\ UNCHANGED <<descriptor_visits, flushing_vars, entity_table_vars, dchecks>>

\* The collector driver's fixed-point pass: once the marking worklist is
\* drained, a discovered ephemeron whose key is marked is resolved by marking
\* and pushing its value.
WorklistDrained ==
  /\ \A th \in Threads : frame[th].pc = "idle"
  /\ \A o \in Objects : worklist[o] = 0
ProcessEphemeron(ephemeron) ==
  /\ WorklistDrained
  /\ ephemeron \in discovered_ephemerons
  /\ marked[ephemeron.key]
  /\ discovered_ephemerons' = discovered_ephemerons \ {ephemeron}
  /\ marked' = [marked EXCEPT ![ephemeron.value] = TRUE]
  /\ try_mark_true' = IF TryMark(marked[ephemeron.value])
                      THEN [try_mark_true EXCEPT ![ephemeron.value] = @ + 1]
                      ELSE try_mark_true
  /\ worklist' = IF TryMark(marked[ephemeron.value])
                 THEN [worklist EXCEPT ![ephemeron.value] = @ + 1]
                 ELSE worklist
  /\ UNCHANGED <<progress_bar, gc_state, ephemeron_hash_tables, frame, pushes,
                 scanned>>
  /\ UNCHANGED <<descriptor_visits, weak_object_vars, entity_table_vars, dchecks, slot_vars>>
\* All liveness is resolved: nothing is left to visit or to revisit.
FixedPoint ==
  /\ WorklistDrained
  /\ \A e \in discovered_ephemerons : ~marked[e.key]

\* One marking cycle over the heap, by the visitor threads and the driver.
VisitorStep(th) ==
  \/ \E o \in Objects : Pop(th, o)
  \/ VisitPointers_Slot(th)
  \/ ProcessStrongHeapObject(th)
  \/ ProcessWeakHeapObject(th)
  \/ MarkObject_Push(th)
  \/ VisitFixedArrayWithProgressBar_Load(th)
  \/ VisitFixedArrayWithProgressBar_TrySetNewValue(th)
  \/ VisitFixedArrayWithProgressBar_Push(th)
  \/ VisitDescriptorsForMap_TryMark(th)
  \/ VisitDescriptorsForMap_TryUpdateIndicesToMark(th)
  \/ VisitDescriptorsForMap_Push(th)
  \/ VisitDescriptorArray(th)
  \/ VisitEphemeronHashTable_Push(th)
  \/ VisitEphemeronHashTable_Key(th)
  \/ VisitEphemeronHashTable_VisitPointer(th)
  \/ VisitEphemeronHashTable_Value(th)
MarkingNext ==
  \/ \E th \in Threads : VisitorStep(th)
  \/ \E ephemeron \in discovered_ephemerons : ProcessEphemeron(ephemeron)

MarkingSpec == Init /\ [][MarkingNext]_vars
\* The marking threads and the driver keep running until the fixed point.
MarkingFairSpec == MarkingSpec /\ WF_vars(MarkingNext)

\* ------------------------------------------- marking the weak objects
\* One marking cycle over the part of the heap that holds the weak objects.
WeakObjectStep(th) ==
  \/ \E o \in Objects : Pop(th, o)
  \/ VisitPointers_Slot(th)
  \/ ProcessStrongHeapObject(th)
  \/ MarkObject_Push(th)
  \/ VisitFixedArrayWithProgressBar_Load(th)
  \/ VisitFixedArrayWithProgressBar_TrySetNewValue(th)
  \/ VisitFixedArrayWithProgressBar_Push(th)
  \/ VisitEphemeronHashTable_Push(th)
  \/ VisitEphemeronHashTable_Key(th)
  \/ VisitEphemeronHashTable_VisitPointer(th)
  \/ VisitEphemeronHashTable_Value(th)
  \/ VisitWeakCell_Target(th)
  \/ VisitWeakCell_Token(th)
WeakObjectsNext ==
  \/ \E th \in Threads : WeakObjectStep(th)
  \/ \E ephemeron \in discovered_ephemerons : ProcessEphemeron(ephemeron)
WeakObjectsInit ==
  /\ InitExceptRoots
  /\ MarkedRoots(WeakObjectRoots)
  /\ FlushingDisabled

WeakObjectsSpec == WeakObjectsInit /\ [][WeakObjectsNext]_vars

\* ------------------------------------------------------- code flushing
\* SharedFunctionInfo::kMaxAge, the largest value of the uint16_t age.
kMaxAge == 65535
\* v8_flags.bytecode_old_age, v8_flags.bytecode_old_time and the member
\* code_flushing_increase_, the seconds since the last collection.
bytecode_old_age == 2
bytecode_old_time == 3
code_flushing_increase_ == 2

CodeFlushModes == SUBSET {"kFlushBytecode", "kFlushBaselineCode", "kStressFlushCode"}
IsFlushingDisabled(mode) == mode = {}
IsByteCodeFlushingEnabled(mode) == "kFlushBytecode" \in mode
IsBaselineCodeFlushingEnabled(mode) == "kFlushBaselineCode" \in mode
IsStressFlushingEnabled(mode) == "kStressFlushCode" \in mode

FunctionKinds == {"kNormalFunction", "kGeneratorFunction"}
IsResumableFunction(function_kind) == function_kind = "kGeneratorFunction"
IsCode(object) == object \in Codes
IsBytecodeArray(object) == object = "bytecode"
IsBaseline(object) == object = "baseline_code"
\* baseline_code.bytecode_or_interpreter_data(): the bytecode of the function.
bytecode_or_interpreter_data(baseline_code) ==
  SlotValue(baseline_code, "kDeoptimizationDataOrInterpreterDataOffset")

\* The test for flushable bytecode without the tests of the flush mode.
HasBytecodeArrayForFlushing_IgnoringMode(sfi) ==
  /\ ~IsResumableFunction(kind[sfi])
  /\ allows_lazy_compilation[sfi]
  /\ IsBytecodeArray(IF IsCode(function_data[sfi])
                     THEN bytecode_or_interpreter_data(function_data[sfi])
                     ELSE function_data[sfi])
\* lines 241-265.  The function data is a bytecode array, baseline code or
\* uncompiled data, so the DCHECK_EQ of line 254 holds.
HasBytecodeArrayForFlushing(sfi) ==
  IF IsFlushingDisabled(code_flush_mode_) THEN FALSE
  ELSE IF IsResumableFunction(kind[sfi]) \/ ~allows_lazy_compilation[sfi]
  THEN FALSE
  ELSE LET data == function_data[sfi]
       IN IF IsCode(data)
          THEN (IF ~IsBaselineCodeFlushingEnabled(code_flush_mode_) THEN FALSE
                ELSE IsBytecodeArray(bytecode_or_interpreter_data(data)))
          ELSE IF ~IsByteCodeFlushingEnabled(code_flush_mode_) THEN FALSE
          ELSE IsBytecodeArray(data)

\* The staleness test of the age counter, whatever the flags say.
IsOld_AgeCounter(sfi) == age[sfi] >= bytecode_old_age
\* lines 277-284.
IsOld(sfi) ==
  IF v8_flags.flush_code_based_on_time
  THEN age[sfi] >= bytecode_old_time
  ELSE IF v8_flags.flush_code_based_on_tab_visibility
  THEN isolate_in_background_ \/ age[sfi] = kMaxAge
  ELSE age[sfi] >= bytecode_old_age
\* line 271.
ShouldFlushCode(sfi) == IsStressFlushingEnabled(code_flush_mode_) \/ IsOld(sfi)

\* An addition of uint16_t values that wraps around.
SaturateAdd_Wrapping(a, b) == (a + b) % (kMaxAge + 1)
\* line 305: base::SaturateAdd of two uint16_t values.
SaturateAdd(a, b) == Min(a + b, kMaxAge)

\* Every configuration ages as the time-based one does.
MakeOlder_FirstPc_TimeBased(flags) == "AG_time_load"
\* lines 290, 307, 309: where MakeOlder starts under the flags; with
\* flushing based on tab visibility it does nothing.
MakeOlder_FirstPc(flags) ==
  IF flags.flush_code_based_on_time THEN "AG_time_load"
  ELSE IF flags.flush_code_based_on_tab_visibility THEN "SF_classify"
  ELSE "AG_load"

\* The shadow of the kind test of line 341: code of every kind passes.
ShouldFlushBaselineCode_AnyKind(js_function) ==
  /\ IsBaselineCodeFlushingEnabled(code_flush_mode_)
  /\ IsCode(code[js_function])
  /\ HasBytecodeArrayForFlushing("sfi") /\ ShouldFlushCode("sfi")
\* lines 321-344.  The shared field of the function holds its
\* SharedFunctionInfo, line 328.
ShouldFlushBaselineCode(js_function) ==
  IF ~IsBaselineCodeFlushingEnabled(code_flush_mode_) THEN FALSE
  ELSE IF ~IsCode(code[js_function]) THEN FALSE
  ELSE IF ~IsBaseline(code[js_function]) THEN FALSE
  ELSE HasBytecodeArrayForFlushing("sfi") /\ ShouldFlushCode("sfi")

\* lines 204-213: the body of a SharedFunctionInfo leaves out the function
\* data; the age is changed when there is bytecode to flush.
VisitSharedFunctionInfo_MakeOlder(th) ==
  /\ frame[th].pc = "SF_visit"
  /\ LET shared_info == frame[th].host
         can_flush_bytecode == HasBytecodeArrayForFlushing(shared_info)
     IN frame' = [frame EXCEPT ![th].pc =
                    IF can_flush_bytecode /\ ~should_keep_ages_unchanged_
                    THEN MakeOlder_FirstPc(v8_flags)
                    ELSE "SF_classify"]
  /\ UNCHANGED <<marked, worklist, progress_bar, gc_state, ephemeron_hash_tables,
                 discovered_ephemerons, try_mark_true, pushes, scanned>>
  /\ UNCHANGED <<descriptor_visits, weak_object_vars, entity_table_vars, dchecks,
                 slot_vars>>

\* lines 291, 296: current_age = sfi.age().
MakeOlder_TimeLoad(th) ==
  /\ frame[th].pc = "AG_time_load"
  /\ frame' = [frame EXCEPT ![th].pc = "AG_time_cas",
                            ![th].current_age = age[frame[th].host]]
  /\ dchecks' = dchecks \cup DCheck("MakeOlder: code_flushing_increase_ != 0",
                                    code_flushing_increase_ # 0)
  /\ UNCHANGED <<marked, worklist, progress_bar, gc_state, ephemeron_hash_tables,
                 discovered_ephemerons, try_mark_true, pushes, scanned>>
  /\ UNCHANGED <<descriptor_visits, weak_object_vars, entity_table_vars, slot_vars>>

\* lines 303-306: the compare-and-swap to the updated age; the loop starts
\* over when the age is no longer the one read.
MakeOlder_TimeCAS(th) ==
  /\ frame[th].pc = "AG_time_cas"
  /\ LET sfi == frame[th].host
         current_age == frame[th].current_age
         updated_age == IF current_age = 0 THEN 1
                        ELSE SaturateAdd(current_age, code_flushing_increase_)
     IN IF age[sfi] = current_age
        THEN /\ age' = [age EXCEPT ![sfi] = updated_age]
             /\ frame' = [frame EXCEPT ![th].pc = "SF_classify"]
        ELSE /\ frame' = [frame EXCEPT ![th].pc = "AG_time_load"]
             /\ UNCHANGED age
  /\ UNCHANGED <<marked, worklist, progress_bar, gc_state, ephemeron_hash_tables,
                 discovered_ephemerons, try_mark_true, pushes, scanned>>
  /\ UNCHANGED <<descriptor_visits, local_weak_objects_, code_flush_mode_,
                 v8_flags, isolate_in_background_, should_keep_ages_unchanged_,
                 function_data, kind, allows_lazy_compilation, code>>
  /\ UNCHANGED <<entity_table_vars, dchecks, slot_vars>>

\* lines 310-311: uint16_t age = sfi.age(); if (age < bytecode_old_age).
MakeOlder_Load(th) ==
  /\ frame[th].pc = "AG_load"
  /\ frame' = [frame EXCEPT
                 ![th].pc = IF age[frame[th].host] < bytecode_old_age
                            THEN "AG_cas" ELSE "AG_dcheck",
                 ![th].current_age = age[frame[th].host]]
  /\ UNCHANGED <<marked, worklist, progress_bar, gc_state, ephemeron_hash_tables,
                 discovered_ephemerons, try_mark_true, pushes, scanned>>
  /\ UNCHANGED <<descriptor_visits, weak_object_vars, entity_table_vars, dchecks,
                 slot_vars>>

\* line 312: sfi.CompareExchangeAge(age, age + 1), tried once.
MakeOlder_CAS(th) ==
  /\ frame[th].pc = "AG_cas"
  /\ LET sfi == frame[th].host
     IN age' = IF age[sfi] = frame[th].current_age
               THEN [age EXCEPT ![sfi] = frame[th].current_age + 1]
               ELSE age
  /\ frame' = [frame EXCEPT ![th].pc = "AG_dcheck"]
  /\ UNCHANGED <<marked, worklist, progress_bar, gc_state, ephemeron_hash_tables,
                 discovered_ephemerons, try_mark_true, pushes, scanned>>
  /\ UNCHANGED <<descriptor_visits, local_weak_objects_, code_flush_mode_,
                 v8_flags, isolate_in_background_, should_keep_ages_unchanged_,
                 function_data, kind, allows_lazy_compilation, code>>
  /\ UNCHANGED <<entity_table_vars, dchecks, slot_vars>>

\* line 314: DCHECK_LE(sfi.age(), v8_flags.bytecode_old_age).
MakeOlder_DCheck(th) ==
  /\ frame[th].pc = "AG_dcheck"
  /\ dchecks' = dchecks \cup DCheck("MakeOlder: sfi.age() <= bytecode_old_age",
                                    age[frame[th].host] <= bytecode_old_age)
  /\ frame' = [frame EXCEPT ![th].pc = "SF_classify"]
  /\ UNCHANGED <<marked, worklist, progress_bar, gc_state, ephemeron_hash_tables,
                 discovered_ephemerons, try_mark_true, pushes, scanned>>
  /\ UNCHANGED <<descriptor_visits, weak_object_vars, entity_table_vars, slot_vars>>

\* lines 215-234: the function data is visited strongly, or the
\* SharedFunctionInfo is pushed as a flushing candidate; with baseline
\* flushing only, the bytecode of the baseline code is visited as well.  The
\* push of line 229 is to the visitor's own worklist and is made with the
\* decision, before the slot of the baseline code is visited.
VisitSharedFunctionInfo_Classify(th) ==
  /\ frame[th].pc = "SF_classify"
  /\ LET shared_info == frame[th].host
         can_flush_bytecode == HasBytecodeArrayForFlushing(shared_info)
     IN IF ~can_flush_bytecode \/ ~ShouldFlushCode(shared_info)
        THEN /\ frame' = [frame EXCEPT ![th].pc = "VisitPointers",
                                       ![th].slots = <<"kFunctionDataOffset">>]
             /\ UNCHANGED <<local_weak_objects_, dchecks>>
        ELSE IF ~IsByteCodeFlushingEnabled(code_flush_mode_)
        THEN /\ dchecks' = dchecks \cup
                  DCheck("VisitSharedFunctionInfo: IsBaselineCodeFlushingEnabled",
                         IsBaselineCodeFlushingEnabled(code_flush_mode_))
             /\ frame' = [frame EXCEPT
                  ![th].pc = "VisitPointers",
                  ![th].host = function_data[shared_info],
                  ![th].slots = <<"kDeoptimizationDataOrInterpreterDataOffset">>]
             /\ local_weak_objects_' =
                  PushWeakObject("code_flushing_candidates", shared_info)
        ELSE /\ frame' = [frame EXCEPT ![th] = IdleFrame]
             /\ local_weak_objects_' =
                  PushWeakObject("code_flushing_candidates", shared_info)
             /\ UNCHANGED dchecks
  /\ UNCHANGED <<marked, worklist, progress_bar, gc_state, ephemeron_hash_tables,
                 discovered_ephemerons, try_mark_true, pushes, scanned>>
  /\ UNCHANGED <<descriptor_visits, flushing_vars, entity_table_vars, slot_vars>>

\* lines 184-197: the function is a baseline flushing candidate, or its code
\* field is visited strongly; NeedsResetDueToFlushedBytecode depends on fields
\* that are not modelled, both answers are taken.
VisitJSFunction(th) ==
  /\ frame[th].pc = "JS_visit"
  /\ LET js_function == frame[th].host
     IN IF ShouldFlushBaselineCode(js_function)
        THEN /\ dchecks' = dchecks \cup
                  DCheck("VisitJSFunction: IsBaselineCodeFlushingEnabled",
                         IsBaselineCodeFlushingEnabled(code_flush_mode_))
             /\ local_weak_objects_' =
                  PushWeakObject("baseline_flushing_candidates", js_function)
             /\ frame' = [frame EXCEPT ![th] = IdleFrame]
        ELSE /\ frame' = [frame EXCEPT ![th].pc = "VisitPointers",
                                       ![th].slots = <<"kCodeOffset">>]
             /\ \E NeedsResetDueToFlushedBytecode \in BOOLEAN :
                  local_weak_objects_' =
                    IF /\ IsByteCodeFlushingEnabled(code_flush_mode_)
                       /\ NeedsResetDueToFlushedBytecode
                    THEN PushWeakObject("flushed_js_functions", js_function)
                    ELSE local_weak_objects_
             /\ UNCHANGED dchecks
  /\ UNCHANGED <<marked, worklist, progress_bar, gc_state, ephemeron_hash_tables,
                 discovered_ephemerons, try_mark_true, pushes, scanned>>
  /\ UNCHANGED <<descriptor_visits, flushing_vars, entity_table_vars, slot_vars>>

\* The function prologue of Ignition and Sparkplug resets the age of the
\* function it enters, lines 297-298, at any time.
Mutator_ResetAge ==
  /\ \E sfi \in SharedFunctionInfos :
       /\ age[sfi] # 0
       /\ age' = [age EXCEPT ![sfi] = 0]
  /\ UNCHANGED <<marked, worklist, progress_bar, gc_state, ephemeron_hash_tables,
                 discovered_ephemerons, frame, try_mark_true, pushes, scanned>>
  /\ UNCHANGED slot_vars
  /\ UNCHANGED <<descriptor_visits, local_weak_objects_, code_flush_mode_,
                 v8_flags, isolate_in_background_, should_keep_ages_unchanged_,
                 function_data, kind, allows_lazy_compilation, code>>
  /\ UNCHANGED <<entity_table_vars, dchecks>>

\* The functions are popped and visited; the bytecode and the code objects
\* the visits push stay on the marking worklist.
FlushingStep(th) ==
  \/ \E object \in SharedFunctionInfos \cup JSFunctions : Pop(th, object)
  \/ VisitPointers_Slot(th)
  \/ ProcessStrongHeapObject(th)
  \/ MarkObject_Push(th)
  \/ VisitSharedFunctionInfo_MakeOlder(th)
  \/ MakeOlder_TimeLoad(th)
  \/ MakeOlder_TimeCAS(th)
  \/ MakeOlder_Load(th)
  \/ MakeOlder_CAS(th)
  \/ MakeOlder_DCheck(th)
  \/ VisitSharedFunctionInfo_Classify(th)
  \/ VisitJSFunction(th)
FlushingNext ==
  \/ \E th \in Threads : FlushingStep(th)
  \/ Mutator_ResetAge

\* The ages a SharedFunctionInfo can have when a cycle starts: with the age
\* counter MakeOlder stops at bytecode_old_age, with the tab visibility it
\* leaves the age alone, with the time it saturates.
InitialAges(flags) ==
  IF flags.flush_code_based_on_time
  THEN {0, bytecode_old_time - 1, kMaxAge - 1, kMaxAge}
  ELSE IF flags.flush_code_based_on_tab_visibility
  THEN {0, kMaxAge}
  ELSE 0 .. bytecode_old_age
\* A cycle over one function, under every configuration of code flushing.
\* isolate_in_background_ is read with tab visibility only, and a function has
\* at most one of the two reasons of line 244 not to be flushed.
FlushingInit ==
  /\ InitExceptRoots
  /\ MarkedRoots(FunctionRoots)
  /\ code_flush_mode_ \in CodeFlushModes
  /\ v8_flags \in [flush_code_based_on_time : BOOLEAN,
                   flush_code_based_on_tab_visibility : BOOLEAN]
  /\ isolate_in_background_ \in BOOLEAN
  /\ should_keep_ages_unchanged_ \in BOOLEAN
  /\ age \in [SharedFunctionInfos -> InitialAges(v8_flags)]
  /\ function_data \in [SharedFunctionInfos ->
                          {"bytecode", "baseline_code", "uncompiled_data"}]
  /\ kind \in [SharedFunctionInfos -> FunctionKinds]
  /\ allows_lazy_compilation \in [SharedFunctionInfos -> BOOLEAN]
  /\ code \in [JSFunctions -> Codes]
  /\ isolate_in_background_ => v8_flags.flush_code_based_on_tab_visibility
  /\ \A sfi \in SharedFunctionInfos :
       IsResumableFunction(kind[sfi]) => allows_lazy_compilation[sfi]

FlushingSpec == FlushingInit /\ [][FlushingNext]_vars

\* --------------------------------------------- marking with a mutator
\* The mutator replaces the strong reference in the transitions slot of a map
\* by a weak reference to the same object while the visitor threads run.
Mutator_Store ==
  /\ mutator.pc = "idle"
  /\ ~raw_transitions[MutatedHost].weak
  /\ mutator' = [pc |-> "barrier", object |-> raw_transitions[MutatedHost].object]
  /\ raw_transitions' = [raw_transitions EXCEPT ![MutatedHost] = Weak(@.object)]
  /\ UNCHANGED <<marked, worklist, progress_bar, gc_state, ephemeron_hash_tables,
                 discovered_ephemerons, frame, try_mark_true, pushes, scanned>>
  /\ UNCHANGED <<recorded_slots, weak_references>>
  /\ UNCHANGED <<descriptor_visits, weak_object_vars, entity_table_vars, dchecks>>
\* The write barrier that follows the store treats the weak reference as a
\* strong one: it marks the object and, when it is the first to mark it,
\* pushes it to the marking worklist.
Mutator_WriteBarrier ==
  /\ mutator.pc = "barrier"
  /\ LET object == mutator.object
         first == TryMark(marked[object])
     IN /\ marked' = [marked EXCEPT ![object] = TRUE]
        /\ try_mark_true' = IF first
                            THEN [try_mark_true EXCEPT ![object] = @ + 1]
                            ELSE try_mark_true
        /\ worklist' = IF first
                       THEN [worklist EXCEPT ![object] = @ + 1]
                       ELSE worklist
  /\ mutator' = [mutator EXCEPT !.pc = "done"]
  /\ UNCHANGED <<progress_bar, gc_state, ephemeron_hash_tables,
                 discovered_ephemerons, frame, pushes, scanned>>
  /\ UNCHANGED <<raw_transitions, recorded_slots, weak_references>>
  /\ UNCHANGED <<descriptor_visits, weak_object_vars, entity_table_vars, dchecks>>

ConcurrentMarkingNext ==
  \/ MarkingNext
  \/ Mutator_Store
  \/ Mutator_WriteBarrier

ConcurrentMarkingSpec == Init /\ [][ConcurrentMarkingNext]_vars

\* ------------------------------------------------------------ properties
RECURSIVE SumUpTo(_, _)
SumUpTo(f, n) == IF n < 0 THEN 0 ELSE f[n] + SumUpTo(f, n - 1)
\* Number of entries ever allocated from a space.
NumAllocated(space) == SumUpTo(allocated[space], NumSegments * kEntriesPerSegment - 1)
AllocatedSet(space) == {i \in Indices : allocated[space][i] > 0}
\* A space inside its lifetime: registered with a table and not yet torn down.
LiveSpaces == {s \in Spaces : owning_table_[s] # nullptr /\ SpaceIsLive(s)}
\* A call is in flight from its start until it has returned.
InFlight(th) == pc[th] \notin {"idle", "returned"}
Quiescent(space) == \A th \in Threads : InFlight(th) => call[th].space # space

\* C1: the indices returned by the allocation calls on one Space, under every
\* interleaving of head loads, Extend and the CAS, are pairwise distinct (no
\* index is returned twice) and none is 0.
C1_NoDoubleAllocation ==
  \A s \in Spaces :
    /\ \A i \in Indices : allocated[s][i] <= 1
    /\ allocated[s][0] = 0
    /\ \A th \in Threads :
         (pc[th] = "returned" /\ call[th].space = s /\ call[th].op = "AllocateEntry")
           => result[th] # 0

\* Two threads have allocated from one Space, across an Extend of a further
\* segment.
C1_Witness ==
  \E s \in Spaces :
    /\ Cardinality(AllocatedSet(s)) > kEntriesPerSegment
    /\ Cardinality(segments_[s]) = 2

C3_ExtendPrecondition ==
  /\ \A th \in Threads :
       pc[th] \in {"EX_alloc", "EX_link", "EX_publish"} =>
         /\ mutex_[call[th].space] = th
         /\ freelist_head_[call[th].space].length = 0
  /\ dchecks \cap {"Extend: space->freelist_length() == 0",
                   "Extend: space->mutex_.AssertHeld()",
                   "AllocateEntry: freelist.length() == kEntriesPerSegment"} = {}
C3_PublishStep ==
  \A th \in Threads :
    (pc[th] = "EX_publish" /\ pc'[th] # "EX_publish") =>
      /\ freelist_head_'[call[th].space].length = kEntriesPerSegment
      /\ freelist'[th] = freelist_head_'[call[th].space]
C3_GrowthMonotonicity ==
  [][C3_ExtendPrecondition /\ C3_ExtendPrecondition' /\ C3_PublishStep]_vars

\* A thread is inside Extend while the other waits for the same mutex.
C3_Witness ==
  \E th \in Threads, other \in Threads :
    /\ pc[th] = "EX_publish"
    /\ pc[other] = "AE_lock"
    /\ call[other].space = call[th].space

\* C4: every nonzero result r of AllocateEntryBelow(space, T) satisfies
\* 0 < r < T, whatever the other threads do on the same Space.
C4_BelowThreshold ==
  /\ \A th \in Threads :
       (pc[th] = "returned" /\ call[th].op = "AllocateEntryBelow" /\ result[th] # 0)
         => (0 < result[th] /\ result[th] < call[th].threshold)
  /\ "AllocateEntryBelow: allocated_entry < threshold_index" \notin dchecks

\* AllocateEntryBelow returned an index while the other thread was allocating
\* from the same Space.
C4_Witness ==
  \E th \in Threads, other \in Threads :
    /\ pc[th] = "returned" /\ call[th].op = "AllocateEntryBelow" /\ result[th] # 0
    /\ other # th /\ call[other].space = call[th].space /\ pc[other] = "TA_cas"

\* C5: AllocateEntryBelow looks at the freelist head only: when the head is
\* empty or its index is at or above the threshold the call returns 0 at once;
\* otherwise it goes on to allocate the head entry, and a call that is
\* allocating holds a non-empty head whose index is below the threshold.
C5_LoadStep ==
  \A th \in Threads :
    (pc[th] = "AB_load" /\ pc'[th] # "AB_load") =>
      LET head == freelist_head_[call[th].space]
      IN IF (head.next = 0 /\ head.length = 0) \/ head.next >= call[th].threshold
         THEN pc'[th] = "returned" /\ result'[th] = 0
         ELSE pc'[th] = "TA_read" /\ freelist'[th] = head
C5_HeadHeld ==
  \A th \in Threads :
    (call[th].op = "AllocateEntryBelow" /\ pc[th] \in {"TA_read", "TA_cas", "AB_ret"}) =>
      /\ freelist[th].length > 0
      /\ freelist[th].next < call[th].threshold
C5_HeadOnly == [][C5_LoadStep /\ C5_HeadHeld /\ C5_HeadHeld']_vars

\* AllocateEntryBelow returned 0 on a non-empty freelist whose head index is
\* at or above the threshold, with no other call running.
C5_Witness ==
  \E th \in Threads :
    /\ pc[th] = "returned" /\ call[th].op = "AllocateEntryBelow" /\ result[th] = 0
    /\ call[th].threshold > 0
    /\ freelist_head_[call[th].space].length > 0
    /\ freelist_head_[call[th].space].next >= call[th].threshold
    /\ \A other \in Threads \ {th} : pc[other] = "idle"

\* C6: AllocateEntryBelow never enters the growth path (Extend) and never
\* holds the Space's mutex; the only step of the call that changes the
\* freelist head is a successful CAS, which makes the call return a nonzero
\* index, so a call that returns 0 has left the freelist head, the segment
\* set and all entries as they were.
C6_NoGrowth ==
  \A th \in Threads :
    call[th].op = "AllocateEntryBelow" =>
      /\ pc[th] \in {"AB_load", "TA_read", "TA_cas", "AB_ret", "returned"}
      /\ mutex_[call[th].space] # th
      /\ (pc[th] = "AB_ret" => freelist[th].next # 0)
      /\ (pc[th] = "returned" /\ result[th] # 0 => allocated[call[th].space][result[th]] > 0)
C6_Step ==
  \A th \in Threads :
    (/\ call[th].op = "AllocateEntryBelow"
     /\ pc'[th] # pc[th]
     /\ pc'[th] # "AB_ret"
     /\ ~(pc[th] = "returned" /\ result[th] # 0)) =>
      UNCHANGED <<freelist_head_, segments_, entries, mutex_, vas_pages>>
C7_ReturnedInOwnSegment ==
  /\ \A th \in Threads :
       (pc[th] = "returned" /\ (call[th].op = "AllocateEntry" \/ result[th] # 0)) =>
         /\ result[th] \div kEntriesPerSegment \in segments_[call[th].space]
         /\ \A other \in Spaces \ {call[th].space} :
              owning_table_[other] = owning_table_[call[th].space] =>
                result[th] \div kEntriesPerSegment \notin segments_[other]
  /\ dchecks \cap {"AllocateEntry: space->Contains(allocated_entry)",
                   "AllocateEntryBelow: space->Contains(allocated_entry)"} = {}

\* An index has been returned while another Space of the same table owns
\* segments too.
C7_Witness ==
  \E th \in Threads, other \in Spaces :
    /\ pc[th] = "returned" /\ result[th] # 0
    /\ other # call[th].space
    /\ owning_table_[other] = owning_table_[call[th].space]
    /\ segments_[other] # {}

\* C8: once a table is initialized, segment 0 stays allocated and is never
\* freed, no Space owns it, none of its entries is written or linked into a
\* freelist, no freelist head or link points into it (0 being the terminator),
\* and no allocation returns one of its indices.
C8_SegmentZeroReserved ==
  /\ \A t \in Tables :
       is_initialized(t) =>
         /\ 0 \in vas_pages[t]
         /\ \A i \in Indices :
              /\ i < kEntriesPerSegment => entries[t][i] = FreshEntry
              /\ entries[t][i].tag = "free" =>
                   (entries[t][i].next = 0 \/ entries[t][i].next >= kEntriesPerSegment)
  /\ \A s \in Spaces :
       /\ 0 \notin segments_[s]
       /\ \A i \in 0 .. (kEntriesPerSegment - 1) : allocated[s][i] = 0
       /\ freelist_head_[s].length > 0 => freelist_head_[s].next >= kEntriesPerSegment
  /\ \A th \in Threads :
       (pc[th] = "returned" /\ result[th] # 0) => result[th] >= kEntriesPerSegment
  /\ dchecks \cap {"Extend: segment.number() != 0",
                   "FreeTableSegment: segment.number() != 0",
                   "AllocateEntry: allocated_entry != 0",
                   "AllocateEntryBelow: allocated_entry != 0"} = {}

\* A Space has been torn down, its segment freed, and the segment has been
\* taken again by another Space of the table, which allocated from it.
C8_Witness ==
  \E s \in torn_down, other \in LiveSpaces :
    /\ owning_table_[s] = owning_table_[other]
    /\ \E i \in AllocatedSet(s) :
         i \div kEntriesPerSegment \in segments_[other] /\ allocated[other][i] > 0

\* C9: no segment number is in the segment sets of two Spaces of one table,
\* every owned segment is allocated in the table's address space, and a Space
\* that is registered with a table stays registered with that table.
C9_Disjoint ==
  /\ \A s1 \in Spaces, s2 \in Spaces :
       (s1 # s2 /\ owning_table_[s1] = owning_table_[s2]) =>
         segments_[s1] \cap segments_[s2] = {}
  /\ \A s \in Spaces :
       segments_[s] # {} =>
         /\ owning_table_[s] # nullptr
         /\ \A n \in segments_[s] : n * kSegmentSize \in vas_pages[owning_table_[s]]
C9_OneTable ==
  \A s \in Spaces :
    owning_table_[s] # nullptr => owning_table_'[s] = owning_table_[s]
C9_SpacesDisjoint == [][C9_Disjoint /\ C9_Disjoint' /\ C9_OneTable]_vars

\* Two Spaces of one table are inside Extend at the same time.
C9_Witness ==
  \E th \in Threads, other \in Threads :
    /\ pc[th] = "EX_link" /\ pc[other] = "EX_link"
    /\ call[th].space # call[other].space
    /\ owning_table_[call[th].space] = owning_table_[call[other].space]
    /\ segment[th] # segment[other]

\* C10 as stated: a Space that has allocated kEntriesPerSegment - 1 entries
\* (3 where a segment has 4) has been given the entries 1 .. kEntriesPerSegment - 1
\* of the table's first segment and its freelist is empty.
C10_FirstSegmentScenario ==
  \A s \in LiveSpaces :
    (Quiescent(s) /\ NumAllocated(s) = kEntriesPerSegment - 1) =>
      /\ AllocatedSet(s) = 1 .. (kEntriesPerSegment - 1)
      /\ is_empty(freelist_head_[s])

\* C10 as amended: segment 0 is reserved whole, so an empty Space owns no
\* entries and its first allocation already extends it.  At every quiescent
\* point a live Space that has allocated k entries owns ceil(k / kEntriesPerSegment)
\* segments, none of them segment 0; it has returned, each once, every entry
\* of all but one of them and the first entries, in ascending order, of the
\* remaining one; the freelist is the rest of that segment, and it is empty
\* exactly when k is a multiple of kEntriesPerSegment, so that the next
\* allocation extends the Space.
C10_SegmentScenario ==
  \A s \in LiveSpaces :
    Quiescent(s) =>
      LET k == NumAllocated(s)
          m == (k + kEntriesPerSegment - 1) \div kEntriesPerSegment
          r == k - (m - 1) * kEntriesPerSegment
      IN /\ Cardinality(segments_[s]) = m
         /\ 0 \notin segments_[s]
         /\ Cardinality(AllocatedSet(s)) = k
         /\ k = 0 => (freelist_head_[s] = [next |-> 0, length |-> 0])
         /\ k > 0 =>
              \E n \in segments_[s] :
                /\ AllocatedSet(s) =
                     {i \in Indices : i \div kEntriesPerSegment \in segments_[s] \ {n}}
                       \cup (n * kEntriesPerSegment .. n * kEntriesPerSegment + r - 1)
                /\ freelist_head_[s] =
                     IF r = kEntriesPerSegment
                     THEN [next |-> 0, length |-> 0]
                     ELSE [next |-> n * kEntriesPerSegment + r,
                           length |-> kEntriesPerSegment - r]

\* A Space has used up its first segment, one of the segments 1 and 2, and
\* has allocated the first entry of the other; no call is running.
C10_Witness ==
  \E s \in LiveSpaces :
    /\ \A th \in Threads : pc[th] = "idle"
    /\ segments_[s] = {1, 2}
    /\ NumAllocated(s) = kEntriesPerSegment + 1
    /\ freelist_head_[s].length = kEntriesPerSegment - 1

\* C11: TearDownSpace(space) frees every segment the Space owns exactly once
\* and clears its segment set: each owned segment's pages were allocated
\* before the step and are free after it, the Space then owns no segment and
\* Contains(i) is false for every index, no assertion fails, and neither the
\* first segment nor a segment of another Space or table is freed.
C11_TearDownStep(space) == space \notin torn_down /\ space \in torn_down'
C11_Effect(space) ==
  LET table == owning_table_[space]
      owned == segments_[space]
  IN /\ \A n \in owned : /\ segment_offset(n) \in vas_pages[table]
                         /\ segment_offset(n) \notin vas_pages'[table]
     /\ segments_'[space] = {}
     /\ \A i \in Indices : ~Contains(space, i)'
     /\ vas_pages'[table] = vas_pages[table] \ {segment_offset(n) : n \in owned}
     /\ segment_offset(0) \in vas_pages'[table]
     /\ \A other \in Spaces \ {space} :
          /\ segments_'[other] = segments_[other]
          /\ \A n \in segments_[other] :
               segment_offset(n) \in vas_pages'[owning_table_[other]]
     /\ \A t \in Tables \ {table} : vas_pages'[t] = vas_pages[t]
     /\ dchecks' = dchecks
C11_TearDownSpaceFrame ==
  [][\A space \in Spaces : C11_TearDownStep(space) => C11_Effect(space)]_vars
\* A Space with allocations has been torn down while another live Space of the
\* same table keeps a segment.
C11_Witness ==
  \E s \in torn_down, other \in LiveSpaces :
    /\ owning_table_[other] = owning_table_[s]
    /\ AllocatedSet(s) # {}
    /\ segments_[s] = {}
    /\ segments_[other] # {}
    /\ \A n \in segments_[other] :
         segment_offset(n) \in vas_pages[owning_table_[other]]

\* C12 as stated: a TearDownTable while a Space of the table still holds
\* segments fails an assertion.
C12_TearDownTableStep(table) == is_initialized(table) /\ ~is_initialized(table)'
C12_HoldsSegments(table) ==
  \E s \in Spaces : owning_table_[s] = table /\ segments_[s] # {}
C12_TearDownTableAsserts ==
  [][\A t \in Tables :
       C12_TearDownTableStep(t) /\ C12_HoldsSegments(t) => dchecks' # dchecks]_vars
\* C12 amended: TearDownTable checks only is_initialized(): whatever the Spaces
\* hold, it fails no assertion, releases every page of the table and leaves
\* the Spaces' segment sets and freelist heads as they are.  The violation is
\* detected only when the lifetime of such a Space ends: by
\* DCHECK(is_initialized()) in TearDownSpace or DCHECK(segments_.empty()) in
\* ~Space.
C12_TableStepUnchecked ==
  \A t \in Tables :
    C12_TearDownTableStep(t) =>
      /\ dchecks' = dchecks
      /\ fatal' = fatal
      /\ vas_pages'[t] = {}
      /\ segments_' = segments_
      /\ freelist_head_' = freelist_head_
C12_DetectedAtSpaceEnd ==
  \A s \in torn_down :
    segments_[s] # {} =>
      \/ "TearDownSpace: is_initialized()" \in dchecks
      \/ "~Space: segments_.empty()" \in dchecks
C12_TearDownTableUnchecked ==
  [][C12_TableStepUnchecked]_vars /\ []C12_DetectedAtSpaceEnd
\* The table has been torn down under a live Space that holds a segment, and
\* nothing has failed.
C12_Witness ==
  \E s \in LiveSpaces :
    /\ ~is_initialized(owning_table_[s])
    /\ segments_[s] # {}
    /\ dchecks = {}
    /\ ~fatal

\* C13: segment allocation failure is fatal and never retried or surfaced.
\* The process enters the fatal state from inside Extend with the segment
\* sets, the freelist heads, the pages, the entries and every thread's
\* position and result as they were; nothing runs afterwards, so the call
\* never returns; and Extend goes on only with a segment other than 0 whose
\* pages the address space has newly supplied.
C13_FatalStep ==
  ~fatal /\ fatal' =>
    /\ \E th \in Threads : pc[th] = "EX_alloc" /\ mutex_[Space(th)] = th
    /\ UNCHANGED <<table_vars, space_vars, thread_vars, history_vars>>
C13_ExtendGoesOn ==
  \A th \in Threads :
    pc[th] = "EX_alloc" /\ pc'[th] # "EX_alloc" =>
      /\ pc'[th] = "EX_link"
      /\ ~fatal'
      /\ segment'[th] \in SegmentNumbers \ {0}
      /\ segment_offset(segment'[th]) \notin vas_pages[Table(th)]
      /\ segment_offset(segment'[th]) \in vas_pages'[Table(th)]
      /\ segments_'[Space(th)] = segments_[Space(th)] \cup {segment'[th]}
C13_FatalIsFinal == fatal => UNCHANGED vars
C13_AllocationFailureFatal ==
  [][C13_FatalStep /\ C13_ExtendGoesOn /\ C13_FatalIsFinal]_vars
\* The second Extend of a Space has failed: the process is in the fatal state
\* with the caller still inside Extend.
C13_Witness ==
  /\ fatal
  /\ \E th \in Threads :
       /\ pc[th] = "EX_alloc"
       /\ segments_[Space(th)] # {}
       /\ is_empty(freelist_head_[Space(th)])

\* C14: lock-freedom of the freelist.  Whenever the compare-and-swap of
\* TryAllocateEntryFromFreelist fails for a thread, the head differs from the
\* value the thread loaded, and the entry the thread was about to take has
\* been taken by another call's successful compare-and-swap on the Space
\* (that call is about to return the entry or has returned it): a failure of
\* one thread is the progress of another.
C14_FailedCAS(th) == pc[th] = "TA_cas" /\ pc'[th] \in {"AE_load", "AB_load"}
C14_TakenByCompetitor(th) ==
  LET s == Space(th)
      n == freelist[th].next
  IN \/ \E o \in Threads \ {th} :
          /\ pc[o] \in {"AE_ret", "AB_ret"}
          /\ Space(o) = s
          /\ freelist[o].next = n
     \/ allocated[s][n] > 0
C14_LockFreedom ==
  [][\A th \in Threads :
       C14_FailedCAS(th) =>
         /\ freelist_head_[Space(th)] # freelist[th]
         /\ freelist_head_' = freelist_head_
         /\ C14_TakenByCompetitor(th)]_vars
\* A thread is back at the head load of AllocateEntry after a failed
\* compare-and-swap, its local copy of the head being stale.
C14_Witness ==
  \E th \in Threads :
    /\ pc[th] = "AE_load"
    /\ ~is_empty(freelist[th])
    /\ freelist[th] # freelist_head_[Space(th)]

\* C15: every AllocateEntry call eventually returns an allocated index.  With
\* the calls bounded by MaxCalls and every thread scheduled fairly, a call that
\* has started returns an index other than 0 that its Space contains, unless
\* segment allocation fails (the fatal state); and no AllocateEntry call ever
\* returns the failure value 0.
C15_Started(th) == InFlight(th) /\ call[th].op = "AllocateEntry"
C15_Returned(th) ==
  /\ pc[th] = "returned"
  /\ result[th] # 0
  /\ Contains(Space(th), result[th])
C15_NeverZero ==
  \A th \in Threads :
    pc[th] = "returned" /\ call[th].op = "AllocateEntry" => result[th] # 0
C15_AllocateEntryReturns ==
  /\ \A th \in Threads : C15_Started(th) ~> (C15_Returned(th) \/ fatal)
  /\ []C15_NeverZero
\* Two concurrent AllocateEntry calls on one Space have both returned an index
\* of the single segment that one of them added.
C15_Witness ==
  \E s \in LiveSpaces :
    /\ ~fatal
    /\ \A th \in Threads : pc[th] = "returned" /\ Space(th) = s
                            /\ call[th].op = "AllocateEntry" /\ result[th] # 0
    /\ Cardinality(segments_[s]) = 1

\* The threads that have won the TryMark of MarkObject on an object and have
\* not pushed it yet.
PendingPush(object) ==
  Cardinality({th \in Threads :
                 frame[th].pc = "MO_push" /\ frame[th].object = object})
\* The objects only MarkObject marks: neither a root, nor a descriptor array,
\* nor the value of an ephemeron.
MarkedByMarkObjectOnly ==
  Objects \ (Roots \cup DescriptorArrays
             \cup UNION {{Entries(t)[i].value : i \in DOMAIN Entries(t)} :
                          t \in EphemeronHashTables})

\* C16: mark idempotence.  Of all the TryMark calls on one object, by however
\* many threads, exactly one returns true once the object is marked and none
\* before; MarkObject pushes the object at most once, and exactly once, by the
\* thread that won, when MarkObject is what marks it.
C16_MarkIdempotence ==
  \A o \in Objects :
    /\ try_mark_true[o] = (IF marked[o] THEN 1 ELSE 0)
    /\ pushes[o]["MarkObject"] + PendingPush(o) <= 1
    /\ o \in MarkedByMarkObjectOnly /\ marked[o] =>
         pushes[o]["MarkObject"] + PendingPush(o) = 1
\* Two threads are inside MarkObject on the same object: one has won the
\* TryMark and is about to push, the other has lost and goes on with its slots.
C16_Witness ==
  \E t1 \in Threads, t2 \in Threads :
    /\ t1 # t2
    /\ frame[t1].pc = "MO_push"
    /\ frame[t2].pc = "VisitPointers"
    /\ frame[t1].object \in MarkedByMarkObjectOnly
    /\ frame[t2].object = frame[t1].object
    /\ pushes[frame[t1].object]["MarkObject"] = 0

VisitorPushes(object) ==
  pushes[object]["MarkObject"] + pushes[object]["VisitFixedArrayWithProgressBar"]
    + pushes[object]["VisitDescriptorsForMap"]
\* The number of chunks the scan of the fixed array takes.
NumberOfChunks ==
  (FixedArraySize - kStartOffset + kProgressBarScanningChunk - 1)
    \div kProgressBarScanningChunk

\* C17 as stated: no object but a descriptor array is pushed by the visitor
\* more than once in one marking cycle.
C17_PushedAtMostOnce ==
  \A o \in Objects \ DescriptorArrays : VisitorPushes(o) <= 1
\* C17 amended: MarkObject pushes every object at most once.  An object is
\* pushed again only by the incremental logic: a fixed array with a progress
\* bar by VisitFixedArrayWithProgressBar, once after every chunk but the last
\* and never while it is on the worklist, and a descriptor array by
\* VisitDescriptorsForMap, at most once per map.  Every other object is pushed
\* at most once and is on the worklist at most once.
C17_PushSites ==
  \A o \in Objects :
    /\ pushes[o]["MarkObject"] <= 1
    /\ pushes[o]["VisitFixedArrayWithProgressBar"] > 0 => o \in FixedArrays
    /\ pushes[o]["VisitFixedArrayWithProgressBar"] <= NumberOfChunks - 1
    /\ pushes[o]["VisitDescriptorsForMap"] > 0 => o \in DescriptorArrays
    /\ pushes[o]["VisitDescriptorsForMap"] <= Cardinality(Maps)
    /\ o \notin DescriptorArrays => worklist[o] <= 1
    /\ o \notin FixedArrays \cup DescriptorArrays => VisitorPushes(o) <= 1
\* The fixed array has been pushed by MarkObject and again after its first
\* chunk, and the descriptor array once for each map.
C17_Witness ==
  /\ pushes["arr"]["MarkObject"] = 1
  /\ pushes["arr"]["VisitFixedArrayWithProgressBar"] = NumberOfChunks - 1
  /\ pushes["descs"]["VisitDescriptorsForMap"] = Cardinality(Maps)
  /\ progress_bar["arr"] = FixedArraySize

\* A visit of the array is between reading the progress bar and updating it,
\* and offset i lies in the part of its chunk it has already visited.
InRunningChunk(array, i) ==
  \E th \in Threads :
    /\ frame[th].host = array
    /\ frame[th].pc \in {"VisitPointers", "ProcessStrong", "ProcessWeak",
                        "MO_push", "FA_cas"}
    /\ frame[th].current_progress_bar = progress_bar[array]
    /\ i < frame[th].end
    /\ \A k \in 1 .. Len(frame[th].slots) : frame[th].slots[k] # i

\* C18: progress-bar coverage.  For the fixed array of size FixedArraySize
\* scanned in chunks by whichever thread pops it, no offset is visited twice,
\* no offset at or behind the size is visited, every offset below the progress
\* bar has been visited (no gap), an offset at or above it only by the chunk in
\* progress, and when the marking worklist is drained the progress bar of a
\* marked array stands at its size: the visited ranges add up to [0, size).
C18_ProgressBarCoverage ==
  \A a \in FixedArrays :
    /\ \A i \in ScannedOffsets(a) :
         /\ scanned[a][i] <= 1
         /\ i >= FixedArraySize => scanned[a][i] = 0
         /\ i < progress_bar[a] => scanned[a][i] = 1
         /\ i >= progress_bar[a] /\ scanned[a][i] = 1 => InRunningChunk(a, i)
    /\ progress_bar[a] <= FixedArraySize
    /\ WorklistDrained /\ marked[a] => progress_bar[a] = FixedArraySize
\* The scan has finished in more than one increment: the array was pushed back
\* in between and every offset of [0, size) has been visited once.
C18_Witness ==
  /\ progress_bar["arr"] = FixedArraySize
  /\ pushes["arr"]["VisitFixedArrayWithProgressBar"] >= 1
  /\ \A i \in 0 .. FixedArraySize - 1 : scanned["arr"][i] = 1
  /\ \A th \in Threads : frame[th].host # "arr"

RECURSIVE MaxOf(_)
MaxOf(S) ==
  IF S = {} THEN 0
  ELSE LET x == CHOOSE y \in S : TRUE
           m == MaxOf(S \ {x})
       IN IF x > m THEN x ELSE m
\* The number of descriptors the marked maps ask to have marked.
OwnedByMarkedMaps ==
  MaxOf({Min(NumberOfOwnDescriptors(m), NumberOfDescriptors) :
           m \in {mm \in Maps : marked[mm]}})

\* C19 as stated: once the maps that share the array have been visited and the
\* worklist is drained, the acquired ranges cover [0, number_of_descriptors).
C19_CoversAllDescriptors ==
  \A array \in DescriptorArrays :
    WorklistDrained =>
      \A i \in 0 .. NumberOfDescriptors - 1 : scanned[array][i] = 1
\* C19 amended: descriptor range exclusivity.  No descriptor index is scanned
\* twice in the epoch; the scanned indices are exactly those below the
\* high-water mark of the array, which never passes the number of descriptors
\* the visited maps own; and once the worklist is drained the ranges cover
\* exactly [0, m), m being the largest min(NumberOfOwnDescriptors,
\* number_of_descriptors) of the marked maps.
C19_DescriptorRangeExclusivity ==
  \A array \in DescriptorArrays :
    /\ \A i \in ScannedOffsets(array) :
         /\ scanned[array][i] <= 1
         /\ scanned[array][i] = 1 <=>
              /\ gc_state[array].epoch = mark_compact_epoch_
              /\ i < gc_state[array].marked
         /\ scanned[array][i] = 1 => i < OwnedByMarkedMaps
    /\ WorklistDrained =>
         \A i \in ScannedOffsets(array) :
           scanned[array][i] = 1 <=> i < OwnedByMarkedMaps
\* Both maps are being visited at once while a first range of the shared array
\* has already been scanned and the second map's descriptors are still to come.
C19_Witness ==
  \E t1 \in Threads, t2 \in Threads :
    /\ frame[t1].host = "mapA"
    /\ frame[t2].host = "mapB"
    /\ scanned["descs"][0] = 1
    /\ gc_state["descs"].delta > 0

\* The visit of the table has not finished with entry number i.
EntryPending(table, i) ==
  \E th \in Threads :
    /\ frame[th].host = table
    /\ \/ frame[th].pc = "EH_push"
       \/ /\ frame[th].pc \in {"EH_key", "EH_visit", "EH_value"}
          /\ \E k \in 1 .. Len(frame[th].slots) : frame[th].slots[k] = i
\* The entries of a table whose value is a heap object, and the tables of the
\* cycle: a table is reached as a root.
C20_HeapEntries(t) ==
  {i \in DOMAIN Entries(t) : IsHeapObject(Entries(t)[i].value)}
C20_Tables == EphemeronHashTables \cap Roots
\* C20: ephemeron liveness.  For every entry (K, V) of a table that the
\* visitor has registered, while V is unmarked the pair is on the
\* discovered-ephemerons worklist unless the visit has not finished with the
\* entry; at the fixed point K marked implies V marked; and under fair
\* scheduling, whenever K is marked in a registered table, V is marked
\* eventually.
C20_PairAvailable ==
  \A t \in ephemeron_hash_tables :
    \A i \in C20_HeapEntries(t) :
      LET e == Entries(t)[i]
      IN /\ ~marked[e.value] =>
              \/ Ephemeron(e.key, e.value) \in discovered_ephemerons
              \/ EntryPending(t, i)
         /\ FixedPoint /\ marked[e.key] => marked[e.value]
C20_EphemeronLiveness ==
  /\ []C20_PairAvailable
  /\ \A t \in C20_Tables :
       \A i \in C20_HeapEntries(t) :
         (t \in ephemeron_hash_tables /\ marked[Entries(t)[i].key])
           ~> marked[Entries(t)[i].value]
\* The entry was discovered with key and value unmarked, the key was marked
\* afterwards, and the fixed-point pass has marked the value: no MarkObject of
\* a table visit has marked it.
C20_Witness ==
  /\ "table" \in ephemeron_hash_tables
  /\ marked["key"]
  /\ marked["value"]
  /\ pushes["value"]["MarkObject"] = 0
  /\ PendingPush("value") = 0
  /\ discovered_ephemerons = {}

\* The object is on the marking worklist, or a thread is about to push it, or
\* the visitor has pushed it before.
PushedOrPending(object) ==
  \/ worklist[object] > 0
  \/ PendingPush(object) > 0
  \/ VisitorPushes(object) > 0
\* The values no slot but the value slot of an ephemeron entry refers to.
ReachedThroughTableOnly ==
  {"value"}

\* C21: ephemeron non-forcing.  For an entry (K, V) of an ephemeron hash table
\* whose V is referred to by the table alone, V is neither marked nor pushed
\* onto the marking worklist while K is unmarked and outside the read-only
\* space, whatever the visit of the table has done so far: as long as K is not
\* marked, V is not marked.
C21_EphemeronNonForcing ==
  \A t \in EphemeronHashTables :
    \A i \in DOMAIN Entries(t) :
      LET e == Entries(t)[i]
      IN (e.value \in ReachedThroughTableOnly
            /\ ~marked[e.key] /\ e.key \notin ReadOnlySpace) =>
           /\ ~marked[e.value]
           /\ ~PushedOrPending(e.value)
\* The visit of the table has finished with the entry while its key was
\* unmarked: the pair is on the discovered-ephemerons worklist, the key is
\* still unmarked, and so is the value.
C21_Witness ==
  /\ Ephemeron("key", "value") \in discovered_ephemerons
  /\ \A th \in Threads : frame[th].host # "table"
  /\ ~marked["key"]
  /\ ~marked["value"]

\* The steps of Extend by a thread.
C22_AllocateStep(th) == pc[th] = "EX_alloc" /\ pc'[th] = "EX_link"
C22_LinkStep(th) == pc[th] = "EX_link" /\ pc'[th] = "EX_publish"
C22_PublishStep(th) == pc[th] = "EX_publish" /\ pc'[th] = "AE_unlock"
\* Entry i of a table is a freelist entry linked as Extend links the entries of
\* segment number n: to i + 1, the last entry to the terminator 0.
C22_Linked(es, n, i) ==
  es[i] = [tag |-> "free",
           next |-> IF i = n * kEntriesPerSegment + kEntriesPerSegment - 1
                    THEN 0 ELSE i + 1]
C22_InSegment(n, i) ==
  n * kEntriesPerSegment <= i /\ i < (n + 1) * kEntriesPerSegment

\* C22: Extend(space) adds exactly one segment, which the Space did not hold,
\* to segments_ of that Space and of no other; it writes the next-links of the
\* entries of that segment, i to i + 1 and the last to 0, and no entry outside
\* the segment; and the head it publishes, when the links are all in place, is
\* {first entry of the segment, kEntriesPerSegment}.
C22_ExtendEffect ==
  [][\A th \in Threads :
       LET space == call[th].space
           table == owning_table_[space]
       IN /\ C22_AllocateStep(th) =>
               /\ segment'[th] \notin segments_[space]
               /\ segments_' = [segments_ EXCEPT ![space] = @ \cup {segment'[th]}]
               /\ entries' = entries
               /\ freelist_head_' = freelist_head_
          /\ C22_LinkStep(th) =>
               /\ \A t \in Tables, i \in Indices :
                    IF t = table /\ C22_InSegment(segment[th], i)
                    THEN C22_Linked(entries'[t], segment[th], i)
                    ELSE entries'[t][i] = entries[t][i]
               /\ segments_' = segments_
               /\ freelist_head_' = freelist_head_
          /\ C22_PublishStep(th) =>
               /\ freelist_head_' =
                    [freelist_head_ EXCEPT ![space] =
                       [next |-> segment[th] * kEntriesPerSegment,
                        length |-> kEntriesPerSegment]]
               /\ freelist'[th] = freelist_head_'[space]
               /\ \A i \in Indices :
                    C22_InSegment(segment[th], i) =>
                      C22_Linked(entries[table], segment[th], i)
               /\ segment[th] \in segments_[space]
               /\ entries' = entries
               /\ segments_' = segments_]_vars
\* Extend has just returned from growing a Space that already held a segment:
\* the Space holds two segments and the head is the whole new segment.
C22_Witness ==
  \E th \in Threads :
    /\ pc[th] = "AE_unlock"
    /\ mutex_[call[th].space] = th
    /\ Cardinality(segments_[call[th].space]) = 2
    /\ freelist[th].length = kEntriesPerSegment
    /\ freelist_head_[call[th].space] = freelist[th]
    /\ \E n \in segments_[call[th].space] :
         /\ freelist[th].next = n * kEntriesPerSegment
         /\ \A i \in Indices :
              C22_InSegment(n, i) =>
                C22_Linked(entries[owning_table_[call[th].space]], n, i)

\* C23: publish ordering.  Extend writes the next-link of every entry of the
\* new segment before it stores the head, so the entry whose next-link a thread
\* is about to read, at the index it took from a loaded freelist head, is never
\* memory that Extend has not initialised: it is a freelist entry, or an entry
\* a caller has overwritten since.  While Extend is between inserting the
\* segment and storing the head, the head does not point into the segment.
C23_PublishOrdering ==
  /\ \A th \in Threads :
       pc[th] = "TA_read" /\ ~is_empty(freelist[th]) =>
         entries[Table(th)][freelist[th].next].tag \in {"free", "payload"}
  /\ \A th \in Threads :
       pc[th] \in {"EX_link", "EX_publish"} =>
         ~C22_InSegment(segment[th], freelist_head_[Space(th)].next)
\* A thread is about to read the next-link of the first entry of a segment
\* whose head another thread has just published and not yet popped.
C23_Witness ==
  \E t1 \in Threads, t2 \in Threads :
    /\ t1 # t2
    /\ pc[t1] = "AE_unlock"
    /\ mutex_[Space(t1)] = t1
    /\ Space(t2) = Space(t1)
    /\ pc[t2] = "TA_read"
    /\ freelist[t2] = freelist[t1]
    /\ freelist_head_[Space(t1)] = freelist[t1]
    /\ freelist[t2].length = kEntriesPerSegment

\* The compare-and-swap the thread is about to do will succeed.
C24_CASWillSucceed(th) ==
  pc[th] = "TA_cas" /\ freelist_head_[call[th].space] = freelist[th]
\* The entry at the head the thread loaded.
C24_HeadEntry(th) == entries[owning_table_[call[th].space]][freelist[th].next]

\* C24: no ABA.  Whenever the compare-and-swap of TryAllocateEntryFromFreelist
\* succeeds, the entry at the old head is at that moment a free freelist entry
\* no caller holds, and the next-link the thread read before is the link that
\* entry holds; so a thread whose head entry has been allocated or overwritten
\* since its load, or whose link is not the entry's, fails its compare-and-swap,
\* under every interleaving of AllocateEntry, AllocateEntryBelow and Extend.
C24_NoABA ==
  \A th \in Threads :
    /\ C24_CASWillSucceed(th) =>
         /\ C24_HeadEntry(th).tag = "free"
         /\ next_freelist_entry[th] = C24_HeadEntry(th).next
         /\ allocated[call[th].space][freelist[th].next] = 0
         /\ \A other \in Threads \ {th} :
              (pc[other] \in {"AE_ret", "AB_ret"}
                 /\ call[other].space = call[th].space) =>
                freelist[other].next # freelist[th].next
    /\ (pc[th] = "TA_cas"
          /\ \/ C24_HeadEntry(th).tag # "free"
             \/ next_freelist_entry[th] # C24_HeadEntry(th).next)
         => freelist_head_[call[th].space] # freelist[th]
\* A thread read the next-link of its head entry after another thread had
\* allocated that entry and overwritten it: the link it holds is not a link
\* of the freelist, and its compare-and-swap is going to fail.
C24_Witness ==
  \E th \in Threads :
    /\ pc[th] = "TA_cas"
    /\ C24_HeadEntry(th).tag = "payload"
    /\ next_freelist_entry[th] \in PayloadBits
    /\ next_freelist_entry[th] # freelist[th].next + 1
    /\ freelist_head_[call[th].space] # freelist[th]

RECURSIVE C25_Reachable(_, _, _)
\* The number of entries reachable from index i by following the next-links
\* of freelist entries to the terminator 0; -1 when the walk meets an entry
\* that is not a freelist entry or does not end within fuel steps.
C25_Reachable(es, i, fuel) ==
  IF i = 0 THEN 0
  ELSE IF fuel = 0 \/ es[i].tag # "free" THEN -1
  ELSE LET rest == C25_Reachable(es, es[i].next, fuel - 1)
       IN IF rest = -1 THEN -1 ELSE rest + 1

RECURSIVE C26_FreelistEntries(_, _, _)
\* The indices on the freelist that starts at index i: those reached by
\* following the next-links of freelist entries, for at most fuel steps.
C26_FreelistEntries(es, i, fuel) ==
  IF i = 0 \/ fuel = 0 \/ es[i].tag # "free" THEN {}
  ELSE {i} \cup C26_FreelistEntries(es, es[i].next, fuel - 1)
C26_Freelist(space) ==
  IF owning_table_[space] = nullptr THEN {}
  ELSE C26_FreelistEntries(entries[owning_table_[space]],
                           freelist_head_[space].next,
                           NumSegments * kEntriesPerSegment)
\* The freelist of the Space is the run next, next + 1, .. up to the last
\* entry of the segment that holds next, a segment of the Space.
C26_AscendingRun(space) ==
  LET head == freelist_head_[space]
      n == head.next \div kEntriesPerSegment
  IN /\ C26_Freelist(space) = head.next .. (head.next + head.length - 1)
     /\ head.next + head.length = (n + 1) * kEntriesPerSegment
     /\ n \in segments_[space]
     /\ \A i \in C26_Freelist(space) : head.next <= i
     /\ \A i \in C26_Freelist(space) :
          entries[owning_table_[space]][i].next =
            (IF i + 1 \in C26_Freelist(space) THEN i + 1 ELSE 0)
\* AllocateEntryBelow returns 0 from its load of the head.
C26_ReturnsZero(th) ==
  /\ pc[th] = "AB_load"
  /\ pc'[th] = "returned"
  /\ result'[th] = 0

\* C26: under AllocateEntry, AllocateEntryBelow and Extend the freelist of a
\* Space inside its lifetime is empty or a run of consecutive ascending
\* indices that ends at the last entry of one segment of the Space, so the
\* head is the smallest index on the freelist; and AllocateEntryBelow(space, T)
\* returns 0 only when, at its load of the head, no index below T is on the
\* freelist.
C26_AscendingFreelist ==
  /\ [](\A s \in Spaces \ torn_down :
          ~is_empty(freelist_head_[s]) => C26_AscendingRun(s))
  /\ [][\A th \in Threads :
          C26_ReturnsZero(th) =>
            \A i \in C26_Freelist(call[th].space) : i >= call[th].threshold]_vars
\* AllocateEntryBelow has returned 0 for a threshold above 0 although the
\* freelist is not empty: its entries all lie at or above the threshold.
C26_Witness ==
  \E th \in Threads :
    /\ pc[th] = "returned"
    /\ call[th].op = "AllocateEntryBelow"
    /\ result[th] = 0
    /\ call[th].threshold > 0
    /\ ~is_empty(freelist_head_[call[th].space])
    /\ freelist_head_[call[th].space].length < kEntriesPerSegment
    /\ \A i \in C26_Freelist(call[th].space) : i >= call[th].threshold

\* The assertions on Contains in an allocation call.
C27_ContainsChecks ==
  {"TryAllocateEntryFromFreelist: space->Contains(freelist.next())",
   "AllocateEntry: space->Contains(allocated_entry)",
   "AllocateEntryBelow: space->Contains(allocated_entry)"}
C27_HeadInOwnedSegment(space) ==
  ~is_empty(freelist_head_[space]) =>
    (freelist_head_[space].next \div kEntriesPerSegment) \in segments_[space]
\* A thread takes a step of a call on a Space torn down before.
C27_StepAfterTearDown(th) ==
  /\ call[th].space \in torn_down
  /\ pc'[th] # pc[th] \/ fatal'
\* A step of TearDownSpace leaves the head alone and empties segments_.
C27_TearDownKeepsHead ==
  \A s \in Spaces :
    (s \notin torn_down /\ s \in torn_down') =>
      /\ freelist_head_'[s] = freelist_head_[s]
      /\ segments_'[s] = {}
\* The first step in which an assertion fails belongs to a call on a Space
\* torn down before, and the assertion is the one of
\* TryAllocateEntryFromFreelist on Contains.
C27_FailsAfterTearDownOnly ==
  (dchecks = {} /\ dchecks' # {}) =>
    /\ \E th \in Threads : C27_StepAfterTearDown(th) /\ pc[th] = "TA_read"
    /\ dchecks' = {"TryAllocateEntryFromFreelist: space->Contains(freelist.next())"}
\* As long as no assertion has failed, the non-empty head of a Space that has
\* not been torn down points into a segment the Space owns.
C27_OwnedUntilFailure ==
  dchecks = {} => \A s \in Spaces \ torn_down : C27_HeadInOwnedSegment(s)

StepsFrom(th, position) ==
  frame[th].pc = position /\ frame'[th] # frame[th]
\* The visit of a map has come to its end.
VisitDone(host) ==
  /\ marked[host]
  /\ worklist[host] = 0
  /\ \A th \in Threads : frame[th].host # host
\* A thread that processes a strong reference to an object of the read-only
\* space changes nothing but its own position.
C28_Skipped(th) ==
  /\ marked' = marked
  /\ worklist' = worklist
  /\ pushes' = pushes
  /\ try_mark_true' = try_mark_true
  /\ recorded_slots' = recorded_slots
  /\ weak_references' = weak_references
  /\ frame'[th].pc # "MO_push"
\* A thread that processes a strong reference to any other object: the object
\* is marked afterwards, the thread goes on to push it exactly when it found
\* it unmarked, and otherwise the slot is recorded at once.
C28_Marked(th) ==
  LET object == frame[th].object
  IN /\ marked'[object]
     /\ \A o \in Objects \ {object} : marked'[o] = marked[o]
     /\ worklist' = worklist
     /\ frame'[th].pc = "MO_push" <=> ~marked[object]
     /\ frame'[th].pc # "MO_push" =>
          /\ frame[th].slot \in recorded_slots'[frame[th].host]
          /\ pushes' = pushes
\* The push of MarkObject and the RecordSlot that follows it.
C28_Pushed(th) ==
  LET object == frame[th].object
  IN /\ marked[object]
     /\ worklist' = [worklist EXCEPT ![object] = @ + 1]
     /\ frame[th].slot \in recorded_slots'[frame[th].host]
     /\ marked' = marked
C28_Step ==
  \A th \in Threads :
    /\ StepsFrom(th, "ProcessStrong") =>
         IF frame[th].object \in ReadOnlySpace
         THEN C28_Skipped(th) ELSE C28_Marked(th)
    /\ StepsFrom(th, "MO_push") => C28_Pushed(th)
\* Once the visit of a map is over, every slot of it that holds a strong
\* reference to an object outside the read-only space is recorded and the
\* object is marked; an object of the read-only space is never marked or
\* pushed, and a slot that refers to it strongly is not recorded.
C28_AfterVisit ==
  /\ \A m \in Maps :
       VisitDone(m) =>
         \A k \in DOMAIN MapSlots :
           LET slot == MapSlots[k]
               value == IF slot = "raw_transitions" THEN raw_transitions[m]
                        ELSE [object |-> SlotValue(m, slot), weak |-> FALSE]
           IN (~value.weak /\ value.object \notin ReadOnlySpace) =>
                /\ slot \in recorded_slots[m]
                /\ marked[value.object]
  /\ \A a \in FixedArrays :
       \A i \in recorded_slots[a] : SlotValue(a, i) \notin ReadOnlySpace
  /\ \A o \in ReadOnlySpace :
       ~marked[o] /\ worklist[o] = 0 /\ VisitorPushes(o) = 0

\* C28: strong slot processing.  For a slot whose loaded value is a strong
\* reference, a referent in the read-only space, which fails ShouldMarkObject,
\* is neither marked nor pushed and the slot is not recorded; any other
\* referent is marked after the visit of the slot, it is pushed to the marking
\* worklist exactly when this visit's TryMark was the one that marked it, and
\* the slot is recorded.
C28_StrongSlotProcessing ==
  /\ []C28_AfterVisit
  /\ [][C28_Step]_vars
\* The array has been scanned to its end: the slot that refers to the object
\* in the read-only space was visited and left alone, the slot of the key is
\* recorded; the prototype of the second map, to which a slot of the array and
\* a slot of the map refer, has been pushed once and both slots are recorded.
C28_Witness ==
  /\ progress_bar["arr"] = FixedArraySize
  /\ scanned["arr"][FixedArraySize - 1] = 1
  /\ SlotValue("arr", FixedArraySize - 1) \in ReadOnlySpace
  /\ (FixedArraySize - 1) \notin recorded_slots["arr"]
  /\ kStartOffset \in recorded_slots["arr"]
  /\ \E i \in recorded_slots["arr"] : SlotValue("arr", i) = "proto"
  /\ "prototype" \in recorded_slots["mapB"]
  /\ pushes["proto"]["MarkObject"] = 1

\* The step of ProcessWeakHeapObject: it leaves the mark bits, the marking
\* worklist and the push counts alone, and with a referent outside the
\* read-only space it either records the slot, when the referent is marked, or
\* pushes the pair of host and slot to the weak references, when it is not.
C29_Step ==
  \A th \in Threads :
    StepsFrom(th, "ProcessWeak") =>
      LET object == frame[th].object
          host == frame[th].host
          slot == frame[th].slot
      IN /\ marked' = marked
         /\ worklist' = worklist
         /\ pushes' = pushes
         /\ try_mark_true' = try_mark_true
         /\ frame'[th].pc # "MO_push"
         /\ object \notin ReadOnlySpace =>
              IF marked[object]
              THEN /\ recorded_slots' = [recorded_slots EXCEPT ![host] = @ \cup {slot}]
                   /\ weak_references' = weak_references
              ELSE /\ weak_references' = [weak_references EXCEPT ![host] = @ \cup {slot}]
                   /\ recorded_slots' = recorded_slots
\* A slot is never both recorded as a weak reference to a marked object and
\* queued as a weak reference, and it is one of the two once the visit of its
\* host is over.
C29_ExactlyOne ==
  \A m \in Maps :
    raw_transitions[m].weak =>
      /\ ~("raw_transitions" \in recorded_slots[m] /\ "raw_transitions" \in weak_references[m])
      /\ VisitDone(m) =>
           ("raw_transitions" \in recorded_slots[m] \/ "raw_transitions" \in weak_references[m])
      /\ "raw_transitions" \in recorded_slots[m] => marked[raw_transitions[m].object]

\* C29: weak slot processing.  For a slot that can hold a weak reference and
\* whose loaded value is a weak reference to an object that passes
\* ShouldMarkObject, exactly one of two things happens: the slot is recorded
\* when the referent is already marked, and the pair of host and slot is
\* pushed to the weak references otherwise; the visit neither marks the
\* referent nor pushes it to the marking worklist.
C29_WeakSlotProcessing ==
  /\ []C29_ExactlyOne
  /\ [][C29_Step]_vars
\* The visit of the first map is over and its weak slot was queued: the
\* referent was unmarked when the slot was processed, and the visit did not
\* push it.
C29_Witness ==
  /\ VisitDone("mapA")
  /\ raw_transitions["mapA"].weak
  /\ "raw_transitions" \in weak_references["mapA"]
  /\ "raw_transitions" \notin recorded_slots["mapA"]
  /\ ~marked[raw_transitions["mapA"].object]
\* The other case: the referent was marked before and the slot was recorded.
C29_RecordedCase ==
  /\ VisitDone("mapA")
  /\ "raw_transitions" \in recorded_slots["mapA"]
  /\ "raw_transitions" \notin weak_references["mapA"]

\* The object the written slot refers to, strongly before the write of the
\* mutator and weakly after it.
C30_Object == raw_transitions[MutatedHost].object
\* A visitor thread is between its load of the written slot and the end of
\* the processing of the loaded value.
C30_Processing(th, position) ==
  /\ frame[th].pc = position
  /\ frame[th].host = MutatedHost
  /\ frame[th].slot = MutatedSlot
\* Once the visit of the host is over the object is marked or the slot is on
\* the weak-references worklist; once the write with its barrier is over too,
\* the object is marked.
C30_NeverMissed ==
  /\ VisitDone(MutatedHost) =>
       \/ marked[C30_Object]
       \/ MutatedSlot \in weak_references[MutatedHost]
  /\ mutator.pc = "done" => marked[C30_Object]
  /\ (VisitDone(MutatedHost) /\ mutator.pc = "idle") => marked[C30_Object]
\* A thread that loaded the strong value marks the object, whatever the slot
\* holds by then.
C30_LoadedStrong ==
  \A th \in Threads :
    (C30_Processing(th, "ProcessStrong") /\ frame'[th] # frame[th]) =>
      marked'[C30_Object]

\* C30: a racing change of a slot from a strong to a weak reference is never
\* missed.  When the mutator makes the slot weak while the visitor scans it,
\* the visitor that loaded the strong value marks the object, and the write
\* barrier, which treats the weak reference as strong, marks it after the
\* store; the object is never left unmarked without the slot being on the
\* weak-references worklist.
C30_DowngradeNeverMissed ==
  /\ []C30_NeverMissed
  /\ [][C30_LoadedStrong]_vars
\* The race: a thread has loaded the strong value and has not processed it,
\* the mutator has stored the weak reference and its barrier has not run, and
\* the object is still unmarked.
C30_Witness ==
  /\ \E th \in Threads : C30_Processing(th, "ProcessStrong")
  /\ mutator.pc = "barrier"
  /\ raw_transitions[MutatedHost].weak
  /\ ~marked[C30_Object]
\* The other order: the visitor loaded the weak value before the barrier ran
\* and queued the slot, and the barrier then marked the object.
C30_QueuedThenMarked ==
  /\ VisitDone(MutatedHost)
  /\ mutator.pc = "done"
  /\ MutatedSlot \in weak_references[MutatedHost]
  /\ marked[C30_Object]

\* The compare-and-swap of a thread that has scanned its chunk finds the value
\* the thread read when it began.
C34_CASFindsObserved ==
  \A th \in Threads :
    frame[th].pc \in {"VisitPointers", "ProcessStrong", "MO_push", "FA_cas"}
      /\ frame[th].host \in FixedArrays
      => progress_bar[frame[th].host] = frame[th].current_progress_bar
C34_Bounded ==
  /\ "VisitFixedArrayWithProgressBar: CHECK(success)" \notin dchecks
  /\ \A a \in FixedArrays : progress_bar[a] <= FixedArraySize
  /\ C34_CASFindsObserved
\* No step lowers a progress bar, and the step of the compare-and-swap raises
\* it to the end of the chunk.
C34_Monotonic ==
  /\ \A a \in FixedArrays : progress_bar'[a] >= progress_bar[a]
  /\ \A th \in Threads :
       StepsFrom(th, "FA_cas") =>
         /\ progress_bar'[frame[th].host] = frame[th].end
         /\ frame[th].end > progress_bar[frame[th].host]

\* C34: progress bar updates.  In every interleaving of the marking threads
\* the compare-and-swap of the progress bar from the value observed at the
\* start of the visit to the end of the chunk succeeds, so that the CHECK on it
\* never fails; the value of the progress bar never decreases and never
\* exceeds the size of the array.
C34_ProgressBarUpdates ==
  /\ []C34_Bounded
  /\ [][C34_Monotonic]_vars
\* The progress bar has been raised by two compare-and-swaps, the second one
\* to the size of the array, while the other thread was at work.
C34_Witness ==
  /\ progress_bar["arr"] = FixedArraySize
  /\ pushes["arr"]["VisitFixedArrayWithProgressBar"] >= 1
  /\ \E th \in Threads : frame[th].pc # "idle"

\* After its compare-and-swap a visit goes on to push the array back exactly
\* when the end of its chunk lies below the size of the array; the push finds
\* the progress bar at the end of the chunk; no other step puts a fixed array
\* with a progress bar back onto the worklist.
C35_Repush ==
  /\ \A th \in Threads :
       /\ StepsFrom(th, "FA_cas") =>
            (frame'[th].pc = "FA_push" <=> frame[th].end < FixedArraySize)
       /\ StepsFrom(th, "FA_push") =>
            /\ progress_bar[frame[th].host] = frame[th].end
            /\ frame[th].end < FixedArraySize
            /\ worklist'[frame[th].host] = worklist[frame[th].host] + 1
  /\ \A a \in FixedArrays :
       pushes'[a]["VisitFixedArrayWithProgressBar"]
           # pushes[a]["VisitFixedArrayWithProgressBar"] =>
         \E th \in Threads : StepsFrom(th, "FA_push") /\ frame[th].host = a
\* An array whose progress bar has reached its size is neither on the
\* worklist nor about to be pushed.
C35_DoneIsFinal ==
  \A a \in FixedArrays :
    progress_bar[a] = FixedArraySize =>
      /\ worklist[a] = 0
      /\ \A th \in Threads : ~(frame[th].pc = "FA_push" /\ frame[th].host = a)
\* The fixed arrays of the cycle: the prototypes of the maps among the roots.
C35_Arrays == {SlotValue(m, "prototype") : m \in Maps \cap Roots} \cap FixedArrays
\* A progress bar that has reached the size of the array stays there.
C35_StaysDone ==
  \A a \in FixedArrays :
    progress_bar[a] = FixedArraySize => progress_bar'[a] = FixedArraySize

\* C35: incremental scan resumption.  VisitFixedArrayWithProgressBar pushes
\* the array back onto the marking worklist exactly when the end of the chunk
\* is below the size of the array, and only after it has updated the progress
\* bar; when every pushed array is popped and visited in the end, the progress
\* bar reaches the size of the array, and the array is not pushed again then.
C35_ScanResumption ==
  /\ []C35_DoneIsFinal
  /\ [][C35_Repush /\ C35_StaysDone]_vars
  /\ \A a \in C35_Arrays : (worklist[a] > 0) ~> (progress_bar[a] = FixedArraySize)
\* The array was pushed back after its first chunk, was popped again, and the
\* visit of its last chunk has raised the progress bar to the size and has
\* ended without a push.
C35_Witness ==
  /\ progress_bar["arr"] = FixedArraySize
  /\ pushes["arr"]["VisitFixedArrayWithProgressBar"] = NumberOfChunks - 1
  /\ NumberOfChunks > 1
  /\ worklist["arr"] = 0
  /\ \A th \in Threads : frame[th].host # "arr"

\* The last visit a descriptor array has returned from.
C33_Last(visits) == visits.returned[Len(visits.returned)]
\* A visit of a descriptor array visits the header and returns the size of
\* the array when its range is not empty and begins at descriptor 0; every
\* other visit leaves the header alone and returns 0.  It visits the
\* descriptors of its range and no others.
C33_Visit ==
  \A th \in Threads :
    StepsFrom(th, "DA_acquire") =>
      LET array == frame[th].host
          last == C33_Last(descriptor_visits'[array])
          first == last.start = 0 /\ last.end > 0
      IN /\ Len(descriptor_visits'[array].returned)
              = Len(descriptor_visits[array].returned) + 1
         /\ last.start <= last.end
         /\ last.size = (IF first THEN DescriptorArray_SizeOf ELSE 0)
         /\ descriptor_visits'[array].header
              = descriptor_visits[array].header + (IF first THEN 1 ELSE 0)
         /\ \A i \in ScannedOffsets(array) :
              scanned'[array][i] =
                scanned[array][i]
                  + (IF last.start <= i /\ i < last.end
                     THEN 1 ELSE 0)
\* The header of a descriptor array is visited at most once, by the visit
\* that returned the size; the size is not zero.
C33_HeaderOnce ==
  /\ DescriptorArray_SizeOf > 0
  /\ \A a \in DescriptorArrays :
       /\ descriptor_visits[a].header <= 1
       /\ descriptor_visits[a].header =
            Cardinality({k \in DOMAIN descriptor_visits[a].returned :
                           descriptor_visits[a].returned[k].size # 0})

\* C33: descriptor array header.  VisitDescriptorArray, when values in the
\* heap can be updated, visits the header of the array and returns the size
\* of the array, which is not zero, only when the range it acquired is not
\* empty and starts at index 0; with every other range it visits only the
\* descriptors from start up to end and returns 0.  The header is visited at
\* most once in a marking epoch however often the array is pushed and
\* visited.
C33_DescriptorArrayHeader ==
  /\ []C33_HeaderOnce
  /\ [][C33_Visit]_vars
\* The array has been visited twice, having been pushed for both maps: the
\* first visit took the descriptors from index 0 and the header, the second
\* took the descriptors behind them and returned 0.
C33_Witness ==
  /\ Len(descriptor_visits["descs"].returned) = 2
  /\ descriptor_visits["descs"].returned[1].start = 0
  /\ descriptor_visits["descs"].returned[1].size = DescriptorArray_SizeOf
  /\ descriptor_visits["descs"].returned[2].start > 0
  /\ descriptor_visits["descs"].returned[2].end
       > descriptor_visits["descs"].returned[2].start
  /\ descriptor_visits["descs"].returned[2].size = 0
  /\ descriptor_visits["descs"].header = 1
\* A visit that found nothing left to mark: its range is empty and it
\* returned 0.
C33_EmptyRange ==
  /\ Len(descriptor_visits["descs"].returned) = 2
  /\ C33_Last(descriptor_visits["descs"]).start = C33_Last(descriptor_visits["descs"]).end
  /\ C33_Last(descriptor_visits["descs"]).size = 0

\* The entry a table visit is at, and its slots.
C31_Entry(th) == Entries(frame[th].host)[Head(frame[th].slots)]
C31_KeySlot(th) == <<"key", Head(frame[th].slots)>>
C31_ValueSlot(th) == <<"value", Head(frame[th].slots)>>
\* The visit registers the table, then records the key slot of every entry
\* and goes on to visit the value strongly exactly when the key lies in the
\* read-only space or is marked.
C31_KeyStep ==
  \A th \in Threads :
    /\ StepsFrom(th, "EH_push") =>
         /\ frame[th].host \in ephemeron_hash_tables'
         /\ discovered_ephemerons' = discovered_ephemerons
    /\ StepsFrom(th, "EH_key") =>
         /\ C31_KeySlot(th) \in recorded_slots'[frame[th].host]
         /\ frame'[th].pc \in {"EH_visit", "EH_value"}
         /\ frame'[th].pc = "EH_visit" <=>
              (C31_Entry(th).key \in ReadOnlySpace \/ marked[C31_Entry(th).key])
         /\ marked' = marked
         /\ discovered_ephemerons' = discovered_ephemerons
\* The strong visit of the value slot marks a value that is a heap object
\* outside the read-only space and pushes no pair.
C31_StrongStep ==
  \A th \in Threads :
    StepsFrom(th, "EH_visit") =>
      LET value == C31_Entry(th).value
      IN /\ discovered_ephemerons' = discovered_ephemerons
         /\ IF value # Smi /\ value \notin ReadOnlySpace
            THEN /\ marked'[value]
                 /\ \/ frame'[th].pc = "MO_push" /\ frame'[th].slot = C31_ValueSlot(th)
                    \/ C31_ValueSlot(th) \in recorded_slots'[frame[th].host]
            ELSE marked' = marked /\ recorded_slots' = recorded_slots
\* With a key that is unmarked and outside the read-only space the visit
\* marks nothing; when the value is a heap object it records the value slot,
\* and it pushes the pair exactly when the value lies outside the read-only
\* space and is unmarked.
C31_WeakStep ==
  \A th \in Threads :
    StepsFrom(th, "EH_value") =>
      LET value == C31_Entry(th).value
          pair == Ephemeron(C31_Entry(th).key, value)
      IN /\ marked' = marked
         /\ worklist' = worklist
         /\ IF value = Smi
            THEN /\ recorded_slots' = recorded_slots
                 /\ discovered_ephemerons' = discovered_ephemerons
            ELSE /\ recorded_slots' =
                      [recorded_slots EXCEPT ![frame[th].host] = @ \cup {C31_ValueSlot(th)}]
                 /\ discovered_ephemerons' =
                      IF value \notin ReadOnlySpace /\ ~marked[value]
                      THEN discovered_ephemerons \cup {pair}
                      ELSE discovered_ephemerons
\* A table whose visit is over is registered and all its key slots are
\* recorded; the value of an entry whose key lies in the read-only space is
\* marked.  No pair holds a value that is not to be marked.
C31_AfterVisit ==
  /\ \A t \in EphemeronHashTables :
       VisitDone(t) =>
         /\ t \in ephemeron_hash_tables
         /\ \A i \in DOMAIN Entries(t) :
              /\ <<"key", i>> \in recorded_slots[t]
              /\ (Entries(t)[i].key \in ReadOnlySpace
                    /\ Entries(t)[i].value \notin ReadOnlySpace \cup {Smi})
                   => marked[Entries(t)[i].value]
  /\ \A e \in discovered_ephemerons :
       e.value \notin ReadOnlySpace \cup {Smi} /\ e.key \notin ReadOnlySpace

\* C31: ephemeron table entry rule.  VisitEphemeronHashTable pushes the table
\* to the ephemeron-hash-tables worklist and records the key slot of every
\* entry.  When the key lies in the read-only space or is marked it visits
\* the value slot strongly.  Otherwise, when the value is a heap object, it
\* records the value slot, and it pushes the pair of key and value to the
\* discovered-ephemerons worklist exactly when the value passes
\* ShouldMarkObject and is unmarked.
C31_EphemeronEntryRule ==
  /\ []C31_AfterVisit
  /\ [][C31_KeyStep /\ C31_StrongStep /\ C31_WeakStep]_vars
\* The visit of the table with the five entries is over.  The value behind
\* the read-only key is marked; the pair of the unmarked key k2 was pushed;
\* the value of the unmarked key k3 was marked already, so its slot was
\* recorded and no pair pushed; the value in the read-only space had its slot
\* recorded and no pair pushed; the slot that holds a Smi was not recorded.
C31_Witness ==
  /\ VisitDone("table2")
  /\ marked["v1"]
  /\ Ephemeron("k2", "v2") \in discovered_ephemerons
  /\ ~marked["k3"] /\ marked["tgt"]
  /\ <<"value", 3>> \in recorded_slots["table2"]
  /\ Ephemeron("k3", "tgt") \notin discovered_ephemerons
  /\ <<"value", 4>> \in recorded_slots["table2"]
  /\ Ephemeron("k4", "ro") \notin discovered_ephemerons
  /\ <<"value", 5>> \notin recorded_slots["table2"]

\* The object is marked or lies in the read-only space.
C32_Live(object) == object \in ReadOnlySpace \/ marked[object]
C32_BothSlots == {"kTargetOffset", "kUnregisterTokenOffset"}
\* The cell is pushed to the weak-cells worklist in this step and no slot of
\* it is recorded.
C32_Pushes(weak_cell) ==
  /\ local_weak_objects_' =
       [local_weak_objects_ EXCEPT !["weak_cells"][weak_cell] = @ + 1]
  /\ recorded_slots' = recorded_slots
\* The visit of a weak cell marks and pushes no object.  It looks at the
\* target first: when the target is not live it pushes the cell.  Otherwise
\* it looks at the unregister token: when the token is live it records both
\* slots and pushes nothing, and when it is not it pushes the cell.
C32_Visit ==
  \A th \in Threads :
    LET weak_cell == frame[th].host
    IN /\ StepsFrom(th, "WC_target") =>
            /\ marked' = marked /\ worklist' = worklist /\ pushes' = pushes
            /\ IF C32_Live(relaxed_target(weak_cell))
               THEN /\ frame'[th].pc = "WC_token"
                    /\ local_weak_objects_' = local_weak_objects_
                    /\ recorded_slots' = recorded_slots
               ELSE /\ frame'[th].pc = "idle"
                    /\ C32_Pushes(weak_cell)
       /\ StepsFrom(th, "WC_token") =>
            /\ marked' = marked /\ worklist' = worklist /\ pushes' = pushes
            /\ frame'[th].pc = "idle"
            /\ C32_Live(relaxed_target(weak_cell))
            /\ IF C32_Live(relaxed_unregister_token(weak_cell))
               THEN /\ local_weak_objects_' = local_weak_objects_
                    /\ recorded_slots' =
                         [recorded_slots EXCEPT ![weak_cell] = C32_BothSlots]
               ELSE C32_Pushes(weak_cell)
\* A cell whose visit is over is in one of two states: both slots recorded,
\* the cell not pushed, target and token live; or the cell pushed once and
\* no slot recorded.
C32_AfterVisit ==
  \A c \in WeakCells :
    /\ local_weak_objects_["weak_cells"][c] <= 1
    /\ recorded_slots[c] \in {{}, C32_BothSlots}
    /\ recorded_slots[c] # {} =>
         /\ local_weak_objects_["weak_cells"][c] = 0
         /\ C32_Live(relaxed_target(c))
         /\ C32_Live(relaxed_unregister_token(c))
    /\ VisitDone(c) =>
         (recorded_slots[c] = {} <=> local_weak_objects_["weak_cells"][c] = 1)

\* C32: weak cell rule.  VisitWeakCell records the slots of the target and of
\* the unregister token, and does not push the cell, exactly when both the
\* target and the unregister token are marked or in the read-only space; in
\* every other case it pushes the cell once to the weak-cells worklist and
\* records neither slot.  It never marks the target or the token.
C32_WeakCellRule ==
  /\ []C32_AfterVisit
  /\ [][C32_Visit]_vars
\* Both cells have been visited.  The first found its target and its token
\* marked and has its slots recorded; the second, whose target lies in the
\* read-only space, found its token unmarked and was pushed.
C32_Witness ==
  /\ VisitDone("cell") /\ VisitDone("cell2")
  /\ recorded_slots["cell"] = C32_BothSlots
  /\ local_weak_objects_["weak_cells"]["cell"] = 0
  /\ recorded_slots["cell2"] = {}
  /\ local_weak_objects_["weak_cells"]["cell2"] = 1
\* The second cell recorded: a target in the read-only space counts as live.
C32_ReadOnlyTarget ==
  /\ VisitDone("cell2")
  /\ recorded_slots["cell2"] = C32_BothSlots
\* The first cell found its target marked and its token not.
C32_TokenUnmarked ==
  /\ VisitDone("cell")
  /\ local_weak_objects_["weak_cells"]["cell"] = 1
  /\ marked["tgt"] /\ ~marked["token"]
\* The staleness predicate the flags configure, written out: time-based, else
\* tab-visibility-based, else age-counter-based.
C36_Stale(sfi) ==
  IF v8_flags.flush_code_based_on_time THEN age[sfi] >= bytecode_old_time
  ELSE IF v8_flags.flush_code_based_on_tab_visibility
  THEN isolate_in_background_ \/ age[sfi] = kMaxAge
  ELSE age[sfi] >= bytecode_old_age
C36_Candidates(sfi) == local_weak_objects_["code_flushing_candidates"][sfi]
\* The classifying step of a visit goes on to the function-data field.
C36_VisitsFunctionData(th, sfi) ==
  /\ frame'[th].pc = "VisitPointers"
  /\ frame'[th].host = sfi
  /\ frame'[th].slots = <<"kFunctionDataOffset">>
\* The classifying step of a visit pushes the SharedFunctionInfo exactly when
\* it has bytecode to flush that is stale or flushed under stress, and visits
\* the function data exactly when it does not.
C36_Step(th) ==
  StepsFrom(th, "SF_classify") =>
    LET sfi == frame[th].host
    IN IF /\ HasBytecodeArrayForFlushing(sfi)
          /\ ("kStressFlushCode" \in code_flush_mode_ \/ C36_Stale(sfi))
       THEN /\ local_weak_objects_' =
                 PushWeakObject("code_flushing_candidates", sfi)
            /\ ~C36_VisitsFunctionData(th, sfi)
       ELSE /\ C36_VisitsFunctionData(th, sfi)
            /\ UNCHANGED local_weak_objects_
C36_Classify ==
  /\ \A th \in Threads : C36_Step(th)
  /\ (\A th \in Threads : ~StepsFrom(th, "SF_classify")) =>
       \A sfi \in SharedFunctionInfos : C36_Candidates(sfi)' = C36_Candidates(sfi)
\* A SharedFunctionInfo is pushed at most once, a pushed one never has its
\* function-data field recorded, and one that was visited and not pushed has;
\* ShouldFlushCode is the stress mode or the configured predicate.
C36_AfterVisit ==
  \A sfi \in SharedFunctionInfos :
    /\ C36_Candidates(sfi) <= 1
    /\ C36_Candidates(sfi) = 1 => "kFunctionDataOffset" \notin recorded_slots[sfi]
    /\ (VisitDone(sfi) /\ C36_Candidates(sfi) = 0) =>
         "kFunctionDataOffset" \in recorded_slots[sfi]
    /\ ShouldFlushCode(sfi) <=>
         ("kStressFlushCode" \in code_flush_mode_ \/ C36_Stale(sfi))

\* C36: SharedFunctionInfo classification.  A visit of a SharedFunctionInfo
\* either visits the function-data field strongly, or pushes the
\* SharedFunctionInfo once to the code-flushing-candidates worklist and does
\* not visit that field; it pushes exactly when HasBytecodeArrayForFlushing
\* and ShouldFlushCode both hold, and ShouldFlushCode holds exactly when
\* stress flushing is enabled or the configured staleness predicate
\* (time-based, else tab-visibility-based, else age-counter-based) holds.
C36_Classification ==
  /\ []C36_AfterVisit
  /\ [][C36_Classify]_vars
\* With bytecode flushing and the age counter, a function with old bytecode
\* has been pushed as a candidate and its bytecode is not marked.
C36_Witness ==
  /\ VisitDone("sfi")
  /\ C36_Candidates("sfi") = 1
  /\ ~IsStressFlushingEnabled(code_flush_mode_)
  /\ ~v8_flags.flush_code_based_on_time
  /\ ~v8_flags.flush_code_based_on_tab_visibility
  /\ function_data["sfi"] = "bytecode" /\ ~marked["bytecode"]
\* Flushable bytecode that is not old: the function data was visited.
C36_YoungVisited ==
  /\ VisitDone("sfi")
  /\ HasBytecodeArrayForFlushing("sfi")
  /\ C36_Candidates("sfi") = 0
  /\ "kFunctionDataOffset" \in recorded_slots["sfi"]
  /\ marked["bytecode"]
\* With baseline flushing only, the candidate's bytecode was marked through
\* the baseline code, and the baseline code was not marked.
C36_BaselineOnly ==
  /\ VisitDone("sfi")
  /\ C36_Candidates("sfi") = 1
  /\ ~IsByteCodeFlushingEnabled(code_flush_mode_)
  /\ marked["bytecode"] /\ ~marked["baseline_code"]
  /\ "kDeoptimizationDataOrInterpreterDataOffset" \in recorded_slots["baseline_code"]
\* The age a MakeOlder call is to store over the age c it observed: 1 over
\* 0, and else c + increase, at most 65535.
C37_Updated(c) ==
  IF c = 0 THEN 1
  ELSE IF c + code_flushing_increase_ > kMaxAge THEN kMaxAge
  ELSE c + code_flushing_increase_
\* The step of a visit in which its MakeOlder call returns.
C37_Returns(th) ==
  /\ frame'[th].pc = "SF_classify"
  /\ \/ frame[th].pc \in {"AG_time_cas", "AG_dcheck"}
     \/ /\ frame[th].pc = "SF_visit"
        /\ HasBytecodeArrayForFlushing(frame[th].host)
        /\ ~should_keep_ages_unchanged_
\* The step is a successful CAS from the age observed, which is the age of
\* the SharedFunctionInfo in this step, to the updated age.
C37_SuccessfulCAS(th) ==
  /\ frame[th].current_age = age[frame[th].host]
  /\ age' = [age EXCEPT ![frame[th].host] = C37_Updated(frame[th].current_age)]
\* A call returns with its successful CAS, and with a CAS that fails it
\* leaves the age alone and loads the age again.
C37_RetryLoop(th) ==
  /\ C37_Returns(th) => C37_SuccessfulCAS(th)
  /\ (StepsFrom(th, "AG_time_cas") /\ ~C37_Returns(th)) =>
       /\ frame[th].current_age # age[frame[th].host]
       /\ UNCHANGED age
       /\ frame'[th].pc = "AG_time_load"
\* A step of a visit that changes an age has observed the age it replaces,
\* and stores a larger one: nothing is computed from a stale age.
C37_NoStaleAge(th) ==
  (frame'[th] # frame[th] /\ age' # age) =>
    LET sfi == frame[th].host
    IN /\ frame[th].current_age = age[sfi]
       /\ age'[sfi] > age[sfi]
C37_InRange == \A sfi \in SharedFunctionInfos : age[sfi] \in 0 .. kMaxAge
C37_TimeBasedStep ==
  /\ v8_flags.flush_code_based_on_time => \A th \in Threads : C37_RetryLoop(th)
  /\ \A th \in Threads : C37_NoStaleAge(th)

\* C37 as stated, for every configuration: each MakeOlder call returns with a
\* successful CAS from the observed age c to 1 or min(c + increase, 65535).
C37_AgingInEveryMode ==
  /\ []C37_InRange
  /\ [][\A th \in Threads : C37_RetryLoop(th) /\ C37_NoStaleAge(th)]_vars
\* C37, holding: with flushing based on time a MakeOlder call returns with a
\* successful CAS that replaces the age c it observed by 1 when c is 0 and
\* else by min(c + increase, 65535), and loads the age again after a CAS
\* that failed; under every configuration the age stays within 16 bits and a
\* step that changes it has observed the age it replaces.
C37_TimeBasedAging ==
  /\ []C37_InRange
  /\ [][C37_TimeBasedStep]_vars
\* A time-based call has observed 65534 and stored 65535: the sum saturates.
C37_Witness ==
  \E th \in Threads :
    /\ v8_flags.flush_code_based_on_time
    /\ frame[th].pc = "SF_classify"
    /\ HasBytecodeArrayForFlushing(frame[th].host)
    /\ ~should_keep_ages_unchanged_
    /\ frame[th].current_age = kMaxAge - 1
    /\ age[frame[th].host] = kMaxAge
\* A time-based call whose CAS failed against a reset loads the age again.
C37_Retried ==
  \E th \in Threads :
    /\ frame[th].pc = "AG_time_load"
    /\ frame[th].current_age # 0
    /\ age[frame[th].host] = 0
\* A time-based call has observed 0 and stored 1.
C37_ZeroToOne ==
  \E th \in Threads :
    /\ v8_flags.flush_code_based_on_time
    /\ frame[th].pc = "SF_classify"
    /\ HasBytecodeArrayForFlushing(frame[th].host)
    /\ ~should_keep_ages_unchanged_
    /\ frame[th].current_age = 0
    /\ age[frame[th].host] = 1
\* The age counter is configured: neither the time nor the tab visibility.
C38_AgeCounterMode ==
  /\ ~v8_flags.flush_code_based_on_time
  /\ ~v8_flags.flush_code_based_on_tab_visibility
C38_TabVisibilityMode ==
  /\ ~v8_flags.flush_code_based_on_time
  /\ v8_flags.flush_code_based_on_tab_visibility
\* With the age counter no age exceeds bytecode_old_age and the assertion at
\* the end of MakeOlder has not failed.
C38_Bounded ==
  C38_AgeCounterMode =>
    /\ \A sfi \in SharedFunctionInfos : age[sfi] <= bytecode_old_age
    /\ "MakeOlder: sfi.age() <= bytecode_old_age" \notin dchecks
\* With the tab visibility no step of a visit changes an age.
C38_Unchanged ==
  C38_TabVisibilityMode =>
    \A th \in Threads : frame'[th] # frame[th] => UNCHANGED age

\* C38: with the age counter configured (neither time-based nor
\* tab-visibility flushing), under every interleaving of MakeOlder with
\* resets of the age to 0 by the mutator, the age of a SharedFunctionInfo
\* never exceeds bytecode_old_age and the assertion at the end of MakeOlder
\* never fails; with tab-visibility flushing MakeOlder leaves the age as it is.
C38_AgeStaysBounded ==
  /\ []C38_Bounded
  /\ [][C38_Unchanged]_vars
\* With the age counter, a call observed bytecode_old_age - 1, stored
\* bytecode_old_age and passed the assertion.
C38_Witness ==
  \E th \in Threads :
    /\ C38_AgeCounterMode
    /\ frame[th].pc = "SF_classify"
    /\ HasBytecodeArrayForFlushing(frame[th].host)
    /\ ~should_keep_ages_unchanged_
    /\ frame[th].current_age = bytecode_old_age - 1
    /\ age[frame[th].host] = bytecode_old_age
\* With the age counter, the CAS of a call failed against a reset: the call
\* observed a nonzero age and returned with the age 0.
C38_LostAgainstReset ==
  \E th \in Threads :
    /\ C38_AgeCounterMode
    /\ frame[th].pc = "AG_dcheck"
    /\ frame[th].current_age # 0
    /\ frame[th].current_age < bytecode_old_age
    /\ age[frame[th].host] = 0
\* With the tab visibility, a visit with flushable bytecode came to classify.
C38_TabVisit ==
  \E th \in Threads :
    /\ C38_TabVisibilityMode
    /\ frame[th].pc = "SF_classify"
    /\ HasBytecodeArrayForFlushing(frame[th].host)
    /\ ~should_keep_ages_unchanged_
    /\ age[frame[th].host] = kMaxAge
C39_Candidates(js_function) ==
  local_weak_objects_["baseline_flushing_candidates"][js_function]
\* The function has baseline code, baseline flushing is enabled and the
\* bytecode of its SharedFunctionInfo is to be flushed.
C39_Eligible(js_function) ==
  /\ "kFlushBaselineCode" \in code_flush_mode_
  /\ code[js_function] = "baseline_code"
  /\ HasBytecodeArrayForFlushing("sfi") /\ ShouldFlushCode("sfi")
\* The step of VisitJSFunction goes on to the code-pointer field.
C39_VisitsCode(th, js_function) ==
  /\ frame'[th].pc = "VisitPointers"
  /\ frame'[th].host = js_function
  /\ frame'[th].slots = <<"kCodeOffset">>
C39_Step(th) ==
  StepsFrom(th, "JS_visit") =>
    LET js_function == frame[th].host
    IN IF C39_Eligible(js_function)
       THEN /\ local_weak_objects_' =
                 PushWeakObject("baseline_flushing_candidates", js_function)
            /\ ~C39_VisitsCode(th, js_function)
            /\ frame'[th] = IdleFrame
       ELSE /\ C39_VisitsCode(th, js_function)
            /\ local_weak_objects_'["baseline_flushing_candidates"] =
                 local_weak_objects_["baseline_flushing_candidates"]
C39_Visit ==
  /\ \A th \in Threads : C39_Step(th)
  /\ (\A th \in Threads : ~StepsFrom(th, "JS_visit")) =>
       \A f \in JSFunctions : C39_Candidates(f)' = C39_Candidates(f)
\* A function is pushed at most once; a pushed one never has its code field
\* recorded, and one that was visited and not pushed has.
C39_AfterVisit ==
  \A f \in JSFunctions :
    /\ C39_Candidates(f) <= 1
    /\ C39_Candidates(f) = 1 => "kCodeOffset" \notin recorded_slots[f]
    /\ (VisitDone(f) /\ C39_Candidates(f) = 0) => "kCodeOffset" \in recorded_slots[f]

\* C39: JSFunction code edge.  Each VisitJSFunction call either pushes the
\* function to the baseline-flushing-candidates worklist and does not visit
\* its code-pointer field, which it does when ShouldFlushBaselineCode holds,
\* or visits the code-pointer field strongly and does not push the function
\* as a baseline candidate; never both and never neither.
C39_JSFunctionCodeEdge ==
  /\ []C39_AfterVisit
  /\ [][C39_Visit]_vars
\* The function was visited and pushed as a baseline candidate; its code
\* field was not recorded.
C39_Witness ==
  /\ VisitDone("js_function")
  /\ C39_Candidates("js_function") = 1
  /\ code["js_function"] = "baseline_code"
  /\ "kCodeOffset" \notin recorded_slots["js_function"]
\* Baseline code whose bytecode is not old: the code field was visited.
C39_YoungVisited ==
  /\ VisitDone("js_function")
  /\ IsBaselineCodeFlushingEnabled(code_flush_mode_)
  /\ code["js_function"] = "baseline_code"
  /\ HasBytecodeArrayForFlushing("sfi")
  /\ C39_Candidates("js_function") = 0
  /\ marked["baseline_code"]
  /\ "kCodeOffset" \in recorded_slots["js_function"]
\* No function has been pushed to one of the three flushing worklists.
C40_NothingPushed ==
  \A w \in {"code_flushing_candidates", "baseline_flushing_candidates",
            "flushed_js_functions"} :
    \A o \in Objects : local_weak_objects_[w][o] = 0
\* With flushing disabled nothing is pushed, and a visited function has had
\* its function-data field or its code-pointer field recorded.
C40_AfterVisit ==
  code_flush_mode_ = {} =>
    /\ C40_NothingPushed
    /\ \A sfi \in SharedFunctionInfos :
         VisitDone(sfi) => "kFunctionDataOffset" \in recorded_slots[sfi]
    /\ \A f \in JSFunctions :
         VisitDone(f) => "kCodeOffset" \in recorded_slots[f]
\* With flushing disabled a step of a visit leaves the ages alone, and the
\* steps that classify go on to the function-data and the code-pointer field.
C40_Step(th) ==
  (code_flush_mode_ = {} /\ frame'[th] # frame[th]) =>
    /\ UNCHANGED age
    /\ frame[th].pc = "SF_visit" => frame'[th].pc = "SF_classify"
    /\ frame[th].pc = "SF_classify" =>
         /\ frame'[th].pc = "VisitPointers"
         /\ frame'[th].host = frame[th].host
         /\ frame'[th].slots = <<"kFunctionDataOffset">>
    /\ frame[th].pc = "JS_visit" =>
         /\ frame'[th].pc = "VisitPointers"
         /\ frame'[th].host = frame[th].host
         /\ frame'[th].slots = <<"kCodeOffset">>

\* C40: when code flushing is disabled in code_flush_mode_, no visit of a
\* SharedFunctionInfo or JSFunction pushes to the code-flushing-candidates,
\* baseline-flushing-candidates or flushed-js-functions worklist or changes
\* the age of a SharedFunctionInfo, and the function-data field and the
\* code-pointer field are always visited strongly.
C40_FlushingDisabled ==
  /\ []C40_AfterVisit
  /\ [][\A th \in Threads : C40_Step(th)]_vars
\* Flushing is disabled and the function has baseline code over bytecode as
\* old as the age counter asks for: both visits are over, both fields were
\* recorded, the code was marked, and the age is as it was.
C40_Witness ==
  /\ code_flush_mode_ = {}
  /\ ~v8_flags.flush_code_based_on_time
  /\ ~v8_flags.flush_code_based_on_tab_visibility
  /\ ~should_keep_ages_unchanged_
  /\ kind["sfi"] = "kNormalFunction" /\ allows_lazy_compilation["sfi"]
  /\ function_data["sfi"] = "baseline_code" /\ code["js_function"] = "baseline_code"
  /\ age["sfi"] = bytecode_old_age
  /\ VisitDone("sfi") /\ VisitDone("js_function")
  /\ marked["baseline_code"]
  /\ "kFunctionDataOffset" \in recorded_slots["sfi"]
  /\ "kCodeOffset" \in recorded_slots["js_function"]
  /\ C40_NothingPushed
====
